---- MODULE Spec2Model ----
(***************************************************************************)
(* A model of genalog's text-alignment core: genalog/text/preprocess.py,   *)
(* lcs.py, anchor.py, alignment.py and ner_label.py.                       *)
(*                                                                         *)
(* A character is a one-character string, a text (a Python str) is a       *)
(* sequence of characters, a token list is a sequence of texts.  Python    *)
(* indices are 0-based; the sequences here are 1-based, and every index    *)
(* the program stores (anchors, mappings, cursors) is kept 0-based, as in  *)
(* the source.                                                             *)
(***************************************************************************)
EXTENDS Integers, Sequences, FiniteSets, TLC

VARIABLES
    pc,                 \* position of the call being modelled
    gt_txt,             \* align / align_w_anchor: the ground-truth string
    ocr_txt,            \* align / align_w_anchor: the noisy string
    gt_tokens,          \* token list of the ground truth
    ocr_tokens,         \* token list of the OCR text
    gt_labels,          \* NER labels of gt_tokens
    use_anchor,         \* propagate_label_to_ocr(use_anchor=...)
    max_seg_length,     \* align_w_anchor(max_seg_length=...)
    gap_char,           \* the gap character in use
    gt_anchors,         \* find_anchor_recur's first result
    ocr_anchors,        \* find_anchor_recur's second result
    aligned_gt,         \* aligned ground truth
    aligned_ocr,        \* aligned noisy text
    gt_to_ocr_mapping,  \* parse_alignment's first result
    ocr_to_gt_mapping,  \* parse_alignment's second result
    ocr_labels,         \* the label list under construction / returned
    labels,             \* correct_ner_labels: the list being corrected in place
    cur_i,              \* correct_ner_labels: loop index i (0-based)
    cur_begin_label,    \* correct_ner_labels: the active Begin label, "" if none
    err,                \* "" or the exception raised
    lcs_str_m,          \* LCS(str_m, str_n): the first string
    lcs_str_n,          \* LCS(str_m, str_n): the second string
    lcs_dp_table,       \* LCS.__init__: dp_table
    lcs_m,              \* LCS._find_lcs_str: the cursor m
    lcs_n,              \* LCS._find_lcs_str: the cursor n
    _lcs,               \* LCS._find_lcs_str: lcs, kept as self._lcs
    _lcs_len,           \* self._lcs_len
    sel_alignments,     \* _select_alignment_candidates: the candidates
    sel_target,         \* _select_alignment_candidates: target_num_gt_tokens
    first_result,       \* what an earlier call with the same arguments returned
    anchor_calls,       \* find_anchor_recur: the calls made and not yet returned
    min_anchor_len,     \* get_anchor_map(min_anchor_len=...)
    clean_sentences,    \* propagate_labels_sentences: the clean sentences
    ocr_text_sentences, \* propagate_labels_sentences: the OCR sentences
    ocr_labels_sentences \* propagate_labels_sentences: their labels

vars == <<pc, gt_txt, ocr_txt, gt_tokens, ocr_tokens, gt_labels, use_anchor,
          max_seg_length, gap_char, gt_anchors, ocr_anchors, aligned_gt, aligned_ocr,
          gt_to_ocr_mapping, ocr_to_gt_mapping, ocr_labels, labels, cur_i,
          cur_begin_label, err, lcs_str_m, lcs_str_n, lcs_dp_table, lcs_m, lcs_n,
          _lcs, _lcs_len, sel_alignments, sel_target, first_result, anchor_calls,
          min_anchor_len, clean_sentences, ocr_text_sentences,
          ocr_labels_sentences>>

\* the state of a call LCS(str_m, str_n)
lcs_vars == <<lcs_str_m, lcs_str_n, lcs_dp_table, lcs_m, lcs_n, _lcs, _lcs_len>>
\* the state of a call _select_alignment_candidates(alignments, n)
sel_vars == <<sel_alignments, sel_target>>
\* the state of the calls of find_anchor_recur, get_anchor_map, parse_alignment
\* and propagate_labels_sentences that are followed on their own
aux_vars == <<anchor_calls, min_anchor_len, clean_sentences, ocr_text_sentences,
              ocr_labels_sentences>>

\* the variables of the calls of the alignment and the label modules
call_vars == <<gt_txt, ocr_txt, gt_tokens, ocr_tokens, gt_labels, use_anchor,
               max_seg_length, gap_char, gt_anchors, ocr_anchors, aligned_gt,
               aligned_ocr, gt_to_ocr_mapping, ocr_to_gt_mapping, ocr_labels, labels,
               cur_i, cur_begin_label, err>>

----------------------------------------------------------------------------
(* Bounds of the model *)

\* longest raw string drawn as an input of align / align_w_anchor
MaxLen == 3
\* longest token list drawn as an input
MaxTokens == 3
\* longest labelled sentence drawn freely as an input of
\* propagate_label_to_ocr; the sentences made of every word once come on top
MaxSentence == 2
\* longest label list drawn as an input of correct_ner_labels
MaxLabels == 4
\* longest pair of aligned strings drawn as an input of parse_alignment
MaxAligned == 4
\* longest string drawn as an input of LCS
MaxLcs == 3
\* longest list of candidates drawn as an input of _select_alignment_candidates
MaxCandidates == 3
\* greatest target_num_gt_tokens drawn as an input
MaxTarget == 2

----------------------------------------------------------------------------
(* genalog/text/alignment.py: configuration.  Scores are kept in tenths so *)
(* that the source's -0.5 and 0.1 stay integers.                           *)

MATCH_REWARD == 10
GAP_PENALTY == -5
GAP_EXT_PENALTY == -5
MISMATCH_PENALTY == -5
SPACE_MISMATCH_PENALTY == 1
GAP_CHAR == "@"

\* anchor.py
MAX_ALIGN_SEGMENT_LENGTH == 100

----------------------------------------------------------------------------
(* genalog/text/preprocess.py *)

END_OF_TOKEN == {" ", "\t", "\n"}

_is_spacing(c) == c \in END_OF_TOKEN

\* the characters str.split() splits on and \s matches
Whitespace == END_OF_TOKEN \cup {"\r", "\f"}

\* str.split(): maximal runs of non-whitespace characters, in order
RECURSIVE SplitFrom(_, _, _, _)
SplitFrom(s, k, cur, out) ==
    IF k > Len(s)
    THEN IF cur = <<>> THEN out ELSE Append(out, cur)
    ELSE IF s[k] \in Whitespace
         THEN SplitFrom(s, k + 1, <<>>, IF cur = <<>> THEN out ELSE Append(out, cur))
         ELSE SplitFrom(s, k + 1, Append(cur, s[k]), out)

tokenize(s) == SplitFrom(s, 1, <<>>, <<>>)

\* sep.join(parts)
RECURSIVE JoinWith(_, _)
JoinWith(parts, sep) ==
    IF parts = <<>> THEN <<>>
    ELSE IF Len(parts) = 1 THEN parts[1]
    ELSE parts[1] \o sep \o JoinWith(Tail(parts), sep)

join_tokens(tokens) == JoinWith(tokens, <<" ">>)

\* c * n
Repeat(c, n) == [k \in 1..n |-> c]

----------------------------------------------------------------------------
(* genalog/text/alignment.py: _align_seg, the call of                      *)
(* Bio.pairwise2.align.globalcs(list(gt), list(noise), match_reward_fn,    *)
(* gap_pen, gap_ext_pen, gap_char=[gap_char], one_alignment_only=False).   *)
(*                                                                         *)
(* pairwise2 fills a score matrix (global alignment, end gaps penalised,   *)
(* a gap of length n costing open + (n-1)*extend) and recovers every       *)
(* co-optimal alignment by a depth-first traceback from the last cell.  At *)
(* a cell the moves are tried in the order: gap in the first sequence,     *)
(* match/mismatch, gap in the second sequence; a gap in the first sequence *)
(* is not taken right after (in traceback order) a gap in the second one,  *)
(* which removes the redundant twin of  A- / -B.  With the source's        *)
(* GAP_PENALTY = GAP_EXT_PENALTY every "extend" move retraces an "open"    *)
(* move and pairwise2's _clean_alignments drops the duplicates, so the     *)
(* open moves alone give the list, in the order returned.                  *)

match_reward_fn(x, y) ==
    IF x = y THEN MATCH_REWARD
    ELSE IF x = " " \/ y = " " THEN MISMATCH_PENALTY - SPACE_MISMATCH_PENALTY
    ELSE MISMATCH_PENALTY

\* pairwise2.calc_affine_penalty(length, open, extend, False)
calc_affine_penalty(length) ==
    IF length <= 0 THEN 0 ELSE GAP_PENALTY + (length - 1) * GAP_EXT_PENALTY

Max2(a, b) == IF a >= b THEN a ELSE b

\* One row of the score matrix (row >= 1).  prev is row-1, acc the cells of
\* this row computed so far; cell c of a row is at position c + 1.
RECURSIVE ScoreRow(_, _, _, _, _)
ScoreRow(gt, noise, row, prev, acc) ==
    IF Len(acc) = Len(noise) + 1 THEN acc
    ELSE LET col == Len(acc)
             nogap_score == prev[col] + match_reward_fn(gt[row], noise[col])
             row_open == acc[col] + calc_affine_penalty(1)
             col_open == prev[col + 1] + calc_affine_penalty(1)
         IN  ScoreRow(gt, noise, row, prev,
                      Append(acc, Max2(nogap_score, Max2(row_open, col_open))))

\* The score matrix: rows 0..len(gt), cell (r, c) at [r + 1][c + 1].
RECURSIVE ScoreRows(_, _, _)
ScoreRows(gt, noise, rows) ==
    IF Len(rows) = Len(gt) + 1 THEN rows
    ELSE LET row == Len(rows)
         IN  ScoreRows(gt, noise,
                       Append(rows, ScoreRow(gt, noise, row, rows[row],
                                             <<calc_affine_penalty(row)>>)))

score_matrix(gt, noise) ==
    ScoreRows(gt, noise, << [c \in 1..(Len(noise) + 1) |-> calc_affine_penalty(c - 1)] >>)

\* pairwise2._recover_alignments: the alignments that end in the suffix
\* (ali_gt, ali_noise), traced back from cell (row, col), in the order found.
RECURSIVE Traceback(_, _, _, _, _, _, _, _, _)
Traceback(gt, noise, gc, S, row, col, col_gap, ali_gt, ali_noise) ==
    IF row = 0 /\ col = 0 THEN << <<ali_gt, ali_noise>> >>
    ELSE IF row = 0
    THEN IF col_gap THEN <<>>
         ELSE << <<Repeat(gc, col) \o ali_gt, SubSeq(noise, 1, col) \o ali_noise>> >>
    ELSE IF col = 0
    THEN << <<SubSeq(gt, 1, row) \o ali_gt, Repeat(gc, row) \o ali_noise>> >>
    ELSE LET best == S[row + 1][col + 1]
             open_gt == S[row + 1][col] + calc_affine_penalty(1) = best
             nogap == S[row][col] + match_reward_fn(gt[row], noise[col]) = best
             open_noise == S[row][col + 1] + calc_affine_penalty(1) = best
         IN  (IF open_gt /\ ~col_gap
              THEN Traceback(gt, noise, gc, S, row, col - 1, FALSE,
                             <<gc>> \o ali_gt, <<noise[col]>> \o ali_noise)
              ELSE <<>>)
             \o
             (IF nogap
              THEN Traceback(gt, noise, gc, S, row - 1, col - 1, FALSE,
                             <<gt[row]>> \o ali_gt, <<noise[col]>> \o ali_noise)
              ELSE <<>>)
             \o
             (IF open_noise
              THEN Traceback(gt, noise, gc, S, row - 1, col, TRUE,
                             <<gt[row]>> \o ali_gt, <<gc>> \o ali_noise)
              ELSE <<>>)

\* the list of alignment candidates (aligned_gt, aligned_noise)
_align_seg(gt, noise, gc) ==
    Traceback(gt, noise, gc, score_matrix(gt, noise), Len(gt), Len(noise), FALSE,
              <<>>, <<>>)

\* A result of a call that may raise: err is "" or the exception's name.
Raise(e) == [err |-> e, aligned_gt |-> <<>>, aligned_noise |-> <<>>]
Return(g, n) == [err |-> "", aligned_gt |-> g, aligned_noise |-> n]

\* a faulty selection: the first candidate, whatever its number of tokens
_select_first_candidate(alignments, target_num_gt_tokens) ==
    IF alignments = <<>> THEN Raise("ValueError")
    ELSE IF Len(Head(alignments)[1]) # Len(Head(alignments)[2]) THEN Raise("ValueError")
    ELSE Return(Head(alignments)[1], Head(alignments)[2])

\* a faulty selection: the last candidate with the target number of tokens
RECURSIVE _select_last_candidate(_, _)
_select_last_candidate(alignments, target_num_gt_tokens) ==
    IF alignments = <<>> THEN Raise("ValueError")
    ELSE LET alignment == alignments[Len(alignments)]
         IN  IF Len(tokenize(alignment[1])) = target_num_gt_tokens
             THEN IF Len(alignment[1]) # Len(alignment[2])
                  THEN Raise("ValueError")
                  ELSE Return(alignment[1], alignment[2])
             ELSE _select_last_candidate(SubSeq(alignments, 1, Len(alignments) - 1),
                                         target_num_gt_tokens)

\* the first candidate with the target number of ground-truth tokens
RECURSIVE _select_alignment_candidates(_, _)
_select_alignment_candidates(alignments, target_num_gt_tokens) ==
    IF alignments = <<>> THEN Raise("ValueError")
    ELSE LET alignment == Head(alignments)
             num_aligned_gt_tokens == Len(tokenize(alignment[1]))
         IN  IF num_aligned_gt_tokens = target_num_gt_tokens
             THEN IF Len(alignment[1]) # Len(alignment[2])
                  THEN Raise("ValueError")
                  ELSE Return(alignment[1], alignment[2])
             ELSE _select_alignment_candidates(Tail(alignments), target_num_gt_tokens)

\* a faulty align: an empty side is padded with a single gap character
align_one_gap(gt, noise, gc) ==
    IF gt = <<>> /\ noise = <<>> THEN Return(<<>>, <<>>)
    ELSE IF gt = <<>> THEN Return(<<gc>>, noise)
    ELSE IF noise = <<>> THEN Return(gt, <<gc>>)
    ELSE _select_alignment_candidates(_align_seg(gt, noise, gc), Len(tokenize(gt)))

\* a faulty align: the first candidate is returned, whatever the number of
\* tokens of its aligned reference
align_first(gt, noise, gc) ==
    IF gt = <<>> /\ noise = <<>> THEN Return(<<>>, <<>>)
    ELSE IF gt = <<>> THEN Return(Repeat(gc, Len(noise)), noise)
    ELSE IF noise = <<>> THEN Return(gt, Repeat(gc, Len(gt)))
    ELSE Return(Head(_align_seg(gt, noise, gc))[1], Head(_align_seg(gt, noise, gc))[2])

align(gt, noise, gc) ==
    IF gt = <<>> /\ noise = <<>> THEN Return(<<>>, <<>>)
    ELSE IF gt = <<>> THEN Return(Repeat(gc, Len(noise)), noise)
    ELSE IF noise = <<>> THEN Return(gt, Repeat(gc, Len(gt)))
    ELSE _select_alignment_candidates(_align_seg(gt, noise, gc), Len(tokenize(gt)))

----------------------------------------------------------------------------
(* genalog/text/lcs.py *)

\* One row of the LCS table (i >= 1); cell j of a row is at position j + 1.
RECURSIVE LcsRow(_, _, _, _, _)
LcsRow(str_m, str_n, i, prev, acc) ==
    IF Len(acc) = Len(str_n) + 1 THEN acc
    ELSE LET j == Len(acc)
         IN  LcsRow(str_m, str_n, i, prev,
                    Append(acc, IF str_m[i] = str_n[j]
                                THEN 1 + prev[j]
                                ELSE Max2(prev[j + 1], acc[j])))

RECURSIVE LcsRows(_, _, _)
LcsRows(str_m, str_n, rows) ==
    IF Len(rows) = Len(str_m) + 1 THEN rows
    ELSE LcsRows(str_m, str_n,
                 Append(rows, LcsRow(str_m, str_n, Len(rows), rows[Len(rows)], <<0>>)))

\* dp[i][j] is at [i + 1][j + 1]
_construct_dp_table(str_m, str_n) ==
    LcsRows(str_m, str_n, << [j \in 1..(Len(str_n) + 1) |-> 0] >>)

RECURSIVE _find_lcs_str(_, _, _, _, _, _)
_find_lcs_str(str_m, str_n, dp_table, m, n, lcs) ==
    IF ~(m > 0 /\ n > 0) THEN lcs
    ELSE IF str_m[m] = str_n[n]
    THEN _find_lcs_str(str_m, str_n, dp_table, m - 1, n - 1, <<str_m[m]>> \o lcs)
    ELSE IF dp_table[m][n + 1] > dp_table[m + 1][n]
    THEN _find_lcs_str(str_m, str_n, dp_table, m - 1, n, lcs)
    ELSE _find_lcs_str(str_m, str_n, dp_table, m, n - 1, lcs)

\* LCS(str_m, str_n).get_str()
LCS_get_str(str_m, str_n) ==
    _find_lcs_str(str_m, str_n, _construct_dp_table(str_m, str_n),
                  Len(str_m), Len(str_n), <<>>)

\* LCS(str_m, str_n).get_len()
LCS_get_len(str_m, str_n) ==
    _construct_dp_table(str_m, str_n)[Len(str_m) + 1][Len(str_n) + 1]

----------------------------------------------------------------------------
(* genalog/text/anchor.py *)

\* str.lower() on the characters of the inputs: the ASCII capitals change
UpperLetters ==
    <<"A", "B", "C", "D", "E", "F", "G", "H", "I", "J", "K", "L", "M",
      "N", "O", "P", "Q", "R", "S", "T", "U", "V", "W", "X", "Y", "Z">>
LowerLetters ==
    <<"a", "b", "c", "d", "e", "f", "g", "h", "i", "j", "k", "l", "m",
      "n", "o", "p", "q", "r", "s", "t", "u", "v", "w", "x", "y", "z">>
LowerChar(c) ==
    IF \E k \in 1..Len(UpperLetters) : UpperLetters[k] = c
    THEN LowerLetters[CHOOSE k \in 1..Len(UpperLetters) : UpperLetters[k] = c]
    ELSE c

lower(tk) == [k \in 1..Len(tk) |-> LowerChar(tk[k])]

Range(seq) == {seq[k] : k \in 1..Len(seq)}

Min2(a, b) == IF a <= b THEN a ELSE b

\* seq[start:end] for 0 <= start; end = -1 stands for None
Slice(seq, start, end) ==
    SubSeq(seq, Min2(start, Len(seq)) + 1, IF end = -1 THEN Len(seq) ELSE Min2(end, Len(seq)))

\* sorted(set_of_integers)
RECURSIVE sorted(_)
sorted(S) ==
    IF S = {} THEN <<>>
    ELSE LET lo == CHOOSE x \in S : \A y \in S : x <= y
         IN  <<lo>> \o sorted(S \ {lo})

\* get_unique_words(tokens), case_sensitive=False
get_unique_words(tokens) ==
    {tk \in Range(tokens) :
        Cardinality({k \in 1..Len(tokens) : lower(tokens[k]) = lower(tk)}) < 2}

\* sum(map(len, tokens))
RECURSIVE segment_len(_)
segment_len(tokens) ==
    IF tokens = <<>> THEN 0 ELSE Len(Head(tokens)) + segment_len(Tail(tokens))

\* list.index(word), 0-based
list_index(src_tokens, word) ==
    (CHOOSE k \in 1..Len(src_tokens) :
        src_tokens[k] = word /\ \A l \in 1..(k - 1) : src_tokens[l] # word) - 1

\* the (word, word_index) pairs of unique_words, ordered by word_index
get_word_map(unique_words, src_tokens) ==
    LET indices == sorted({list_index(src_tokens, w) : w \in unique_words})
    IN  [k \in 1..Len(indices) |-> <<src_tokens[indices[k] + 1], indices[k]>>]

\* filter(pred, seq)
RECURSIVE FilterWords(_, _)
FilterWords(word_map, words) ==
    IF word_map = <<>> THEN <<>>
    ELSE (IF Head(word_map)[1] \in words THEN <<Head(word_map)>> ELSE <<>>)
         \o FilterWords(Tail(word_map), words)

\* the first components of a list of (word, index) pairs: zip(*word_map)[0]
words_of(word_map) == [k \in 1..Len(word_map) |-> word_map[k][1]]

\* the second components: zip(*word_map)[1]
indices_of(word_map) == [k \in 1..Len(word_map) |-> word_map[k][2]]

\* get_anchor_map, steps 5 and 6: keep the words of the LCS string
filter_anchor_words(unique_word_map_gt, unique_word_map_ocr, anchor_words) ==
    << FilterWords(unique_word_map_gt, anchor_words),
       FilterWords(unique_word_map_ocr, anchor_words) >>

\* get_anchor_map, steps 2 to 4: order the common words, take the LCS of the
\* two space-joined word strings and break it into words
anchor_map_of(unique_word_map_gt, unique_word_map_ocr, unique_words_common) ==
    filter_anchor_words(
        unique_word_map_gt, unique_word_map_ocr,
        Range(tokenize(LCS_get_str(join_tokens(words_of(unique_word_map_gt)),
                                   join_tokens(words_of(unique_word_map_ocr)))))
            \cap unique_words_common)

\* get_anchor_map once the common unique words are known
anchor_map_common(unique_words_common, gt_toks, ocr_toks) ==
    IF unique_words_common = {} THEN << <<>>, <<>> >>
    ELSE anchor_map_of(get_word_map(unique_words_common, gt_toks),
                       get_word_map(unique_words_common, ocr_toks),
                       unique_words_common)

get_anchor_map(gt_toks, ocr_toks) ==
    anchor_map_common(get_unique_words(gt_toks) \cap get_unique_words(ocr_toks),
                      gt_toks, ocr_toks)

\* The segments cut at the anchor indices: [0:a1], [a1:a2], ..., [ak:None].
Segments(tokens, anchor_indices) ==
    [k \in 1..(Len(anchor_indices) + 1) |->
        Slice(tokens,
              IF k = 1 THEN 0 ELSE anchor_indices[k - 1],
              IF k = Len(anchor_indices) + 1 THEN -1 ELSE anchor_indices[k])]

\* A result of find_anchor_recur: err is "" or the exception's name; gt and
\* ocr are the sets the call accumulates (it returns them sorted).
RECURSIVE find_anchor_sets(_, _, _, _, _)
RECURSIVE RecurOnSegments(_, _, _, _, _, _, _, _, _)

\* a faulty merge: the anchors a recursion finds in the OCR segment are lost
merge_anchors_gt(out, sub, start_pos_gt, start_pos_ocr) ==
    IF sub.err # "" THEN [out EXCEPT !.err = sub.err]
    ELSE [out EXCEPT !.gt = @ \cup {x + start_pos_gt : x \in sub.gt}]

\* "shift the token indices" and "merge recursion results"
merge_anchors(out, sub, start_pos_gt, start_pos_ocr) ==
    IF sub.err # "" THEN [out EXCEPT !.err = sub.err]
    ELSE [out EXCEPT !.gt = @ \cup {x + start_pos_gt : x \in sub.gt},
                     !.ocr = @ \cup {x + start_pos_ocr : x \in sub.ocr}]

\* the loop over the segment pairs, from pair k on
RecurOnSegments(gt_segments, ocr_segments, seg_start_gt, seg_start_ocr, start_pos_gt, start_pos_ocr, max_len, k, out) ==
    IF out.err # "" \/ k > Min2(Len(gt_segments), Len(ocr_segments)) THEN out
    ELSE RecurOnSegments(
             gt_segments, ocr_segments, seg_start_gt, seg_start_ocr,
             start_pos_gt, start_pos_ocr, max_len, k + 1,
             IF segment_len(gt_segments[k]) > max_len
                \/ segment_len(ocr_segments[k]) > max_len
             THEN merge_anchors(
                      out,
                      find_anchor_sets(Slice(gt_segments[k], 1, -1),
                                       Slice(ocr_segments[k], 1, -1),
                                       seg_start_gt[k] + 1, seg_start_ocr[k] + 1, max_len),
                      start_pos_gt, start_pos_ocr)
             ELSE out)

\* find_anchor_recur, steps 3 and 4, on the anchor indices of the two streams
anchors_from_indices(anchor_indices_gt, anchor_indices_ocr, gt_toks, ocr_toks, start_pos_gt, start_pos_ocr, max_len) ==
    RecurOnSegments(
        Segments(gt_toks, anchor_indices_gt),
        Segments(ocr_toks, anchor_indices_ocr),
        <<0>> \o anchor_indices_gt, <<0>> \o anchor_indices_ocr,
        start_pos_gt, start_pos_ocr, max_len, 1,
        [err |-> "",
         gt |-> {x + start_pos_gt : x \in Range(anchor_indices_gt)},
         ocr |-> {x + start_pos_ocr : x \in Range(anchor_indices_ocr)}])

\* find_anchor_recur, from step 2 on, on the result of get_anchor_map
anchors_from_map(anchor_map, gt_toks, ocr_toks, start_pos_gt, start_pos_ocr, max_len) ==
    IF Len(anchor_map[1]) # Len(anchor_map[2])
    THEN [err |-> "ValueError", gt |-> {}, ocr |-> {}]
    ELSE IF Len(anchor_map[1]) = 0
    THEN [err |-> "", gt |-> {}, ocr |-> {}]
    ELSE anchors_from_indices(indices_of(anchor_map[1]), indices_of(anchor_map[2]),
                              gt_toks, ocr_toks, start_pos_gt, start_pos_ocr, max_len)

find_anchor_sets(gt_toks, ocr_toks, start_pos_gt, start_pos_ocr, max_len) ==
    anchors_from_map(get_anchor_map(gt_toks, ocr_toks), gt_toks, ocr_toks,
                     start_pos_gt, start_pos_ocr, max_len)

\* "return sorted(output_gt_anchors), sorted(output_ocr_anchors)"
sorted_anchors(r) == [err |-> r.err, gt |-> sorted(r.gt), ocr |-> sorted(r.ocr)]

\* find_anchor_recur(gt_tokens, ocr_tokens, max_seg_length=max_len)
find_anchor_recur(gt_toks, ocr_toks, max_len) ==
    sorted_anchors(find_anchor_sets(gt_toks, ocr_toks, 0, 0, max_len))

\* The loop of align_w_anchor over the segment pairs, from pair k on: the
\* aligned segments appended so far are in segs_gt and segs_ocr.
RECURSIVE AlignSegments(_, _, _, _, _, _)
AlignSegments(gt_segments, ocr_segments, gc, k, segs_gt, segs_ocr) ==
    IF k > Min2(Len(gt_segments), Len(ocr_segments))
    THEN Return(JoinWith(segs_gt, <<" ">>), JoinWith(segs_ocr, <<" ">>))
    ELSE LET r == align(join_tokens(gt_segments[k]), join_tokens(ocr_segments[k]), gc)
         IN  IF r.err # "" THEN Raise(r.err)
             ELSE IF r.aligned_gt # <<>> /\ r.aligned_noise # <<>>
             THEN AlignSegments(gt_segments, ocr_segments, gc, k + 1,
                                Append(segs_gt, r.aligned_gt),
                                Append(segs_ocr, r.aligned_noise))
             ELSE AlignSegments(gt_segments, ocr_segments, gc, k + 1, segs_gt, segs_ocr)

\* align_w_anchor once the anchors are found
align_segments_at(gt_toks, ocr_toks, anchors_gt, anchors_ocr, gc) ==
    AlignSegments(Segments(gt_toks, anchors_gt), Segments(ocr_toks, anchors_ocr),
                  gc, 1, <<>>, <<>>)

align_at_anchors(anchors, gt_toks, ocr_toks, gc) ==
    IF anchors.err # "" THEN Raise(anchors.err)
    ELSE align_segments_at(gt_toks, ocr_toks, anchors.gt, anchors.ocr, gc)

align_w_anchor(gt, ocr, gc, max_len) ==
    align_at_anchors(find_anchor_recur(tokenize(gt), tokenize(ocr), max_len),
                     tokenize(gt), tokenize(ocr), gc)

----------------------------------------------------------------------------
(* genalog/text/alignment.py: parse_alignment.  Positions in the strings   *)
(* and token indices are 0-based, as in the source; s[index] of the source *)
(* is s[index + 1] here.                                                   *)

\* the position of the first non-whitespace character at or after index
RECURSIVE _find_token_start(_, _)
_find_token_start(s, index) ==
    IF index < Len(s) - 1 /\ _is_spacing(s[index + 1])
    THEN _find_token_start(s, index + 1)
    ELSE index

\* the position of the first whitespace character at or after index
RECURSIVE _find_token_end(_, _)
_find_token_end(s, index) ==
    IF index < Len(s) - 1 /\ ~_is_spacing(s[index + 1])
    THEN _find_token_end(s, index + 1)
    ELSE index

\* <<token_start, token_end>>; <<-1, -1>> stands for the IndexError raised
\* when start is beyond the last position (the ValueError of an empty s
\* cannot happen: parse_alignment pads s first).
_find_next_token(s, start) ==
    IF start > Len(s) - 1 THEN <<-1, -1>>
    ELSE LET token_start == _find_token_start(s, start)
         IN  <<token_start, _find_token_end(s, token_start)>>

\* token with the leading characters of the set cs removed
RECURSIVE DropWhile(_, _)
DropWhile(token, cs) ==
    IF token # <<>> /\ Head(token) \in cs THEN DropWhile(Tail(token), cs) ELSE token

\* not re.match(r"^\s*{gap_char}*\s*$", token)
_is_valid_token(token, gc) ==
    DropWhile(DropWhile(DropWhile(token, Whitespace), {gc}), Whitespace) # <<>>

\* s[start:end]
Substr(s, start, end) == SubSeq(s, start + 1, end)

\* The state of parse_alignment's loop.
BothValid(st, a_gt, a_noise, gc) ==
    /\ _is_valid_token(Substr(a_gt, st.tk_start_gt, st.tk_end_gt), gc)
    /\ _is_valid_token(Substr(a_noise, st.tk_start_noise, st.tk_end_noise), gc)

\* a faulty Register: the noisy-side array is left as it is
RegisterOneWay(st) ==
    IF st.tk_index_gt >= Len(st.gt_to_noise) \/ st.tk_index_noise >= Len(st.noise_to_gt)
    THEN [st EXCEPT !.err = "IndexError"]
    ELSE [st EXCEPT
            !.gt_to_noise[st.tk_index_gt + 1] = Append(@, st.tk_index_noise)]

\* a faulty Register: the index is put at the front of the row
RegisterAtFront(st) ==
    IF st.tk_index_gt >= Len(st.gt_to_noise) \/ st.tk_index_noise >= Len(st.noise_to_gt)
    THEN [st EXCEPT !.err = "IndexError"]
    ELSE [st EXCEPT
            !.gt_to_noise[st.tk_index_gt + 1] = <<st.tk_index_noise>> \o @,
            !.noise_to_gt[st.tk_index_noise + 1] = <<st.tk_index_gt>> \o @]

\* index_row = gt_to_noise_mapping[tk_index_gt]; index_row.append(tk_index_noise)
\* index_row = noise_to_gt_mapping[tk_index_noise]; index_row.append(tk_index_gt)
Register(st) ==
    IF st.tk_index_gt >= Len(st.gt_to_noise) \/ st.tk_index_noise >= Len(st.noise_to_gt)
    THEN [st EXCEPT !.err = "IndexError"]
    ELSE [st EXCEPT
            !.gt_to_noise[st.tk_index_gt + 1] = Append(@, st.tk_index_noise),
            !.noise_to_gt[st.tk_index_noise + 1] = Append(@, st.tk_index_gt)]

RegisterIfValid(st, a_gt, a_noise, gc) ==
    IF BothValid(st, a_gt, a_noise, gc) THEN Register(st) ELSE st

\* tk_start_gt, tk_end_gt = _find_next_token(aligned_gt, tk_end_gt); tk_index_gt += 1
NextGt(st, a_gt) ==
    LET nt == _find_next_token(a_gt, st.tk_end_gt)
    IN  IF st.err # "" THEN st
        ELSE IF nt[1] = -1 THEN [st EXCEPT !.err = "IndexError"]
        ELSE [st EXCEPT !.tk_start_gt = nt[1], !.tk_end_gt = nt[2],
                        !.tk_index_gt = @ + 1]

NextNoise(st, a_noise) ==
    LET nt == _find_next_token(a_noise, st.tk_end_noise)
    IN  IF st.err # "" THEN st
        ELSE IF nt[1] = -1 THEN [st EXCEPT !.err = "IndexError"]
        ELSE [st EXCEPT !.tk_start_noise = nt[1], !.tk_end_noise = nt[2],
                        !.tk_index_noise = @ + 1]

\* while tk_end_gt < tk_end_noise  (many-to-one)
RECURSIVE ManyToOne(_, _, _, _)
ManyToOne(st, a_gt, a_noise, gc) ==
    IF st.err # "" \/ ~(st.tk_end_gt < st.tk_end_noise) THEN st
    ELSE ManyToOne(NextGt(RegisterIfValid(st, a_gt, a_noise, gc), a_gt),
                   a_gt, a_noise, gc)

\* while tk_end_gt > tk_end_noise  (one-to-many)
RECURSIVE OneToMany(_, _, _, _)
OneToMany(st, a_gt, a_noise, gc) ==
    IF st.err # "" \/ ~(st.tk_end_gt > st.tk_end_noise) THEN st
    ELSE OneToMany(NextNoise(RegisterIfValid(st, a_gt, a_noise, gc), a_noise),
                   a_gt, a_noise, gc)

\* while tk_index_gt < total_gt_tokens or tk_index_noise < total_noise_tokens
RECURSIVE ParseLoop(_, _, _, _)
ParseLoop(st, a_gt, a_noise, gc) ==
    IF st.err # "" THEN st
    ELSE IF ~(st.tk_index_gt < Len(st.gt_to_noise)
              \/ st.tk_index_noise < Len(st.noise_to_gt)) THEN st
    ELSE IF st.tk_end_gt = st.tk_end_noise
    THEN ParseLoop(NextNoise(NextGt(RegisterIfValid(st, a_gt, a_noise, gc), a_gt),
                             a_noise),
                   a_gt, a_noise, gc)
    ELSE IF st.tk_end_gt < st.tk_end_noise
    THEN ParseLoop(ManyToOne(st, a_gt, a_noise, gc), a_gt, a_noise, gc)
    ELSE ParseLoop(OneToMany(st, a_gt, a_noise, gc), a_gt, a_noise, gc)

\* parse_alignment(aligned_gt, aligned_noise, gap_char): a record with err
\* ("" or the exception's name), gt_to_noise and noise_to_gt
parse_alignment(a_gt, a_noise, gc) ==
    IF Len(a_gt) # Len(a_noise)
    THEN [err |-> "ValueError", gt_to_noise |-> <<>>, noise_to_gt |-> <<>>]
    ELSE LET padded_gt == a_gt \o <<" ">>
             padded_noise == a_noise \o <<" ">>
             first_gt == _find_next_token(padded_gt, 0)
             first_noise == _find_next_token(padded_noise, 0)
             st == ParseLoop(
                     [tk_index_gt |-> 0, tk_index_noise |-> 0,
                      tk_start_gt |-> first_gt[1], tk_end_gt |-> first_gt[2],
                      tk_start_noise |-> first_noise[1], tk_end_noise |-> first_noise[2],
                      gt_to_noise |-> [k \in 1..Len(tokenize(a_gt)) |-> <<>>],
                      noise_to_gt |-> [k \in 1..Len(tokenize(a_noise)) |-> <<>>],
                      err |-> ""],
                     padded_gt, padded_noise, gc)
         IN  [err |-> st.err, gt_to_noise |-> st.gt_to_noise,
              noise_to_gt |-> st.noise_to_gt]

----------------------------------------------------------------------------
(* genalog/text/ner_label.py: labels.  A label is a text; the three        *)
(* regular expressions are matched as re.match does.                       *)

\* the characters of the class [a-z|A-Z]
LabelNameChars ==
    {"a", "b", "c", "d", "e", "f", "g", "h", "i", "j", "k", "l", "m", "n", "o", "p",
     "q", "r", "s", "t", "u", "v", "w", "x", "y", "z", "|",
     "A", "B", "C", "D", "E", "F", "G", "H", "I", "J", "K", "L", "M", "N", "O", "P",
     "Q", "R", "S", "T", "U", "V", "W", "X", "Y", "Z"}

\* the longest prefix of s made of characters of cs
RECURSIVE TakeWhile(_, _)
TakeWhile(s, cs) ==
    IF s # <<>> /\ Head(s) \in cs THEN <<Head(s)>> \o TakeWhile(Tail(s), cs) ELSE <<>>

\* ^\s*(ind-)([a-z|A-Z]+)\s*  with ind in indicators: does it match, the
\* groups \1 and \2, and what follows the match
MatchLabel(label, indicators) ==
    LET body == DropWhile(label, Whitespace)
        name == IF Len(body) >= 2 THEN TakeWhile(SubSeq(body, 3, Len(body)), LabelNameChars)
                ELSE <<>>
        ok == Len(body) >= 3 /\ body[1] \in indicators /\ body[2] = "-" /\ name # <<>>
    IN  [ok |-> ok,
         indicator |-> IF ok THEN SubSeq(body, 1, 2) ELSE <<>>,
         name |-> name,
         rest |-> IF ok THEN DropWhile(SubSeq(body, 3 + Len(name), Len(body)), Whitespace)
                  ELSE <<>>]

\* MULTI_TOKEN_BEGIN_LABEL_REGEX = r"^\s*(B-)([a-z|A-Z]+)\s*$"
_is_begin_label(label) ==
    LET m == MatchLabel(label, {"B"}) IN m.ok /\ m.rest = <<>>

\* MULTI_TOKEN_INSIDE_LABEL_REGEX = r"^\s*(I-)([a-z|A-Z]+)\s*$"
_is_inside_label(label) ==
    LET m == MatchLabel(label, {"I"}) IN m.ok /\ m.rest = <<>>

\* MULTI_TOKEN_LABEL_REGEX = r"^\s*([B|I]-)([a-z|A-Z]+)\s*"
_is_multi_token_label(label) == MatchLabel(label, {"B", "|", "I"}).ok

\* re.sub(MULTI_TOKEN_LABEL_REGEX, r"\1\2", label)
_clean_multi_token_label(label) ==
    LET m == MatchLabel(label, {"B", "|", "I"})
    IN  IF m.ok THEN m.indicator \o m.name \o m.rest ELSE label

_convert_to_begin_label(label) ==
    IF _is_inside_label(label)
    THEN <<"B", "-">> \o MatchLabel(label, {"I"}).name
    ELSE label

\* a faulty conversion: the label is left as it is
_convert_to_inside_label_keep(label) == label

_convert_to_inside_label(label) ==
    IF _is_begin_label(label)
    THEN <<"I", "-">> \o MatchLabel(label, {"B"}).name
    ELSE label

\* a faulty _is_missing_begin_label: the names of the two labels are not compared
_is_missing_begin_label_any(begin_label, inside_label) ==
    _is_inside_label(inside_label) /\ begin_label = <<>>

\* begin_label is "" (here <<>>) when no entity is active
_is_missing_begin_label(begin_label, inside_label) ==
    IF ~_is_inside_label(inside_label) THEN FALSE
    ELSE IF begin_label # <<>>
    THEN _convert_to_begin_label(_clean_multi_token_label(inside_label))
            # _clean_multi_token_label(begin_label)
    ELSE TRUE

\* One iteration of correct_ner_labels' loop, on the state
\* [labels, i, cur_begin_label] (i is 0-based).
correct_ner_labels_step(st) ==
    LET label == st.labels[st.i + 1]
    IN  IF _is_multi_token_label(label)
        THEN IF _is_begin_label(label)
             THEN [st EXCEPT !.cur_begin_label = label, !.i = @ + 1]
             ELSE IF _is_missing_begin_label(st.cur_begin_label, label)
             THEN [labels |-> [st.labels EXCEPT ![st.i + 1] = _convert_to_begin_label(label)],
                   i |-> st.i + 1,
                   cur_begin_label |-> _convert_to_begin_label(label)]
             ELSE [st EXCEPT !.i = @ + 1]
        ELSE [st EXCEPT !.cur_begin_label = <<>>, !.i = @ + 1]

RECURSIVE correct_ner_labels_from(_)
correct_ner_labels_from(st) ==
    IF st.i >= Len(st.labels) THEN st.labels
    ELSE correct_ner_labels_from(correct_ner_labels_step(st))

correct_ner_labels(label_list) ==
    correct_ner_labels_from([labels |-> label_list, i |-> 0, cur_begin_label |-> <<>>])

\* a faulty selection: the last corresponding token wins
_select_last_ner_label(label_indices) == label_indices[Len(label_indices)]

_select_from_multiple_ner_labels(label_indices) == label_indices[1]

\* a faulty STEP 1: only the tokens with exactly one correspondence get a label
RECURSIVE naive_labels_single(_, _)
naive_labels_single(ocr_to_gt, gt_label_list) ==
    IF ocr_to_gt = <<>> THEN <<>>
    ELSE (IF Len(Head(ocr_to_gt)) = 1
          THEN <<gt_label_list[Head(ocr_to_gt)[1] + 1]>>
          ELSE <<>>)
         \o naive_labels_single(Tail(ocr_to_gt), gt_label_list)

\* STEP 1 of _propagate_label_to_ocr: one label per non-empty entry of
\* ocr_to_gt_mapping, in order
RECURSIVE naive_labels(_, _)
naive_labels(ocr_to_gt, gt_label_list) ==
    IF ocr_to_gt = <<>> THEN <<>>
    ELSE (IF Head(ocr_to_gt) # <<>>
          THEN <<gt_label_list[_select_from_multiple_ner_labels(Head(ocr_to_gt)) + 1]>>
          ELSE <<>>)
         \o naive_labels(Tail(ocr_to_gt), gt_label_list)

\* a faulty STEP 2a: no label is converted
trailing_connections_skip(st, relationship, connection_index) == st

\* the inner loop of STEP 2a: for connection_index in range(1, num_connections)
RECURSIVE trailing_connections(_, _, _)
trailing_connections(st, relationship, connection_index) ==
    IF st.err # "" \/ connection_index >= Len(relationship) THEN st
    ELSE LET ocr_token_index == relationship[connection_index + 1]
         IN  IF ocr_token_index >= Len(st.labels)
             THEN [st EXCEPT !.err = "IndexError"]
             ELSE trailing_connections(
                      [st EXCEPT !.labels[ocr_token_index + 1] =
                                     _convert_to_inside_label(@)],
                      relationship, connection_index + 1)

\* STEP 2a: for gt_token_index, relationship in enumerate(gt_to_ocr_mapping)
RECURSIVE trailing_begin(_, _, _, _)
trailing_begin(st, gt_to_ocr, gt_label_list, gt_token_index) ==
    IF st.err # "" \/ gt_token_index >= Len(gt_to_ocr) THEN st
    ELSE LET relationship == gt_to_ocr[gt_token_index + 1]
         IN  trailing_begin(
                 IF Len(relationship) > 1 /\ _is_begin_label(gt_label_list[gt_token_index + 1])
                 THEN trailing_connections(st, relationship, 1)
                 ELSE st,
                 gt_to_ocr, gt_label_list, gt_token_index + 1)

\* GAP_CHAR_SET = set(string.printable).difference(SPECIAL_CHAR), less the
\* backquote, which a TLA+ string cannot hold
GAP_CHAR_SET ==
    {"0", "1", "2", "3", "4", "5", "6", "7", "8", "9", "a", "b", "c", "d",
     "e", "f", "g", "h", "i", "j", "k", "l", "m", "n", "o", "p", "q", "r",
     "s", "t", "u", "v", "w", "x", "y", "z", "A", "B", "C", "D", "E", "F",
     "G", "H", "I", "J", "K", "L", "M", "N", "O", "P", "Q", "R", "S", "T",
     "U", "V", "W", "X", "Y", "Z", "!", "\"", "#", "$", "%", "&", "(", ")",
     "*", "+", ",", "-", ".", "/", ":", ";", "<", "=", ">", "?", "@", "[",
     "\\", "]", "^", "_", "{", "|", "}", "~"}

\* a faulty search: only the reference tokens make the input character set
_find_gap_char_candidates_gt(gt_toks, ocr_toks) ==
    LET input_char_set == UNION {Range(tk) : tk \in Range(gt_toks)}
    IN  <<GAP_CHAR_SET \ input_char_set, input_char_set>>

\* _find_gap_char_candidates(gt_tokens, ocr_tokens): <<candidates, input set>>
_find_gap_char_candidates(gt_toks, ocr_toks) ==
    LET input_char_set == UNION {Range(tk) : tk \in Range(gt_toks \o ocr_toks)}
    IN  <<GAP_CHAR_SET \ input_char_set, input_char_set>>

\* a faulty check: every invalid token is reported as a ValueError
RECURSIVE validate_tokens_value(_, _)
validate_tokens_value(tks, gc) ==
    IF tks = <<>> THEN ""
    ELSE IF Len(tokenize(Head(tks))) > 1 THEN "ValueError"
    ELSE IF ~_is_valid_token(Head(tks), gc) THEN "ValueError"
    ELSE validate_tokens_value(Tail(tks), gc)

\* a faulty check: every invalid token is taken for a run of gap characters
RECURSIVE validate_tokens_gap(_, _)
validate_tokens_gap(tks, gc) ==
    IF tks = <<>> THEN ""
    ELSE IF Len(tokenize(Head(tks))) > 1 THEN "ValueError"
    ELSE IF ~_is_valid_token(Head(tks), gc) THEN "GapCharError"
    ELSE validate_tokens_gap(Tail(tks), gc)

\* the sanity checks that open _propagate_label_to_ocr: "" or the exception
RECURSIVE validate_tokens(_, _)
validate_tokens(tks, gc) ==
    IF tks = <<>> THEN ""
    ELSE IF Len(tokenize(Head(tks))) > 1 THEN "ValueError"
    ELSE IF ~_is_valid_token(Head(tks), gc)
    THEN IF gc \in Range(Head(tks)) THEN "GapCharError" ELSE "ValueError"
    ELSE validate_tokens(Tail(tks), gc)

validate_input(gt_label_list, gt_toks, ocr_toks, gc) ==
    IF Len(gt_toks) # Len(gt_label_list) THEN "ValueError"
    ELSE validate_tokens(gt_toks \o ocr_toks, gc)

----------------------------------------------------------------------------
(* The inputs the calls are made with *)

SeqsUpTo(S, n) == UNION {[1..k -> S] : k \in 0..n}

\* the characters of the raw strings given to align and align_w_anchor
Chars == {"a", "b", " "}
\* the words of the token lists
Words == {<<"a">>, <<"a", "b">>, <<"b", "a">>}
\* values of max_seg_length: every non-empty segment recurs, segments of two
\* tokens recur, the default
SegLengths == {0, 1, MAX_ALIGN_SEGMENT_LENGTH}
\* the neutral tag and the Begin and Inside tags of two entity types
LabelO == <<"O">>
LabelBP == <<"B", "-", "P">>
LabelIP == <<"I", "-", "P">>
LabelBQ == <<"B", "-", "Q">>
LabelIQ == <<"I", "-", "Q">>

Texts == SeqsUpTo(Chars, MaxLen) \cup {join_tokens(tks) : tks \in SeqsUpTo(Words, MaxTokens)}
\* the sentences in which every word occurs once, in any order: the ones where
\* every token is a candidate anchor
Shuffles == {s \in [1..Cardinality(Words) -> Words] : \A i, j \in DOMAIN s : s[i] = s[j] => i = j}
Sentences == SeqsUpTo(Words, MaxSentence) \cup Shuffles
SentenceLabels == SeqsUpTo({LabelO, LabelBP, LabelIP}, MaxSentence + 1)
LabelLists == SeqsUpTo({LabelO, LabelBP, LabelIP, LabelBQ, LabelIQ}, MaxLabels)

\* what is not yet computed
Blank ==
    /\ gt_anchors = <<>> /\ ocr_anchors = <<>>
    /\ aligned_gt = <<>> /\ aligned_ocr = <<>>
    /\ gt_to_ocr_mapping = <<>> /\ ocr_to_gt_mapping = <<>>
    /\ err = ""

NoScan == labels = <<>> /\ cur_i = 0 /\ cur_begin_label = <<>>

\* no call of LCS and none of _select_alignment_candidates is modelled
NoLcs ==
    /\ lcs_str_m = <<>> /\ lcs_str_n = <<>> /\ lcs_dp_table = <<>>
    /\ lcs_m = 0 /\ lcs_n = 0 /\ _lcs = <<>> /\ _lcs_len = 0

NoSelect == sel_alignments = <<>> /\ sel_target = 0

\* none of the calls followed on their own is modelled
NoAux ==
    /\ anchor_calls = <<>> /\ min_anchor_len = 2
    /\ clean_sentences = <<>> /\ ocr_text_sentences = <<>>
    /\ ocr_labels_sentences = <<>>

\* a call propagate_label_to_ocr(gt_labels, gt_tokens, ocr_tokens, use_anchor)
Init ==
    /\ pc = "propagate"
    /\ first_result = <<>>
    /\ NoAux
    /\ NoLcs /\ NoSelect
    /\ gt_tokens \in Sentences
    /\ ocr_tokens \in Sentences
    /\ gt_labels \in SentenceLabels
    /\ use_anchor \in BOOLEAN
    /\ max_seg_length = MAX_ALIGN_SEGMENT_LENGTH
    /\ gap_char = ""
    /\ gt_txt = <<>> /\ ocr_txt = <<>>
    /\ ocr_labels = <<>>
    /\ Blank /\ NoScan

\* a call align(gt, noise) or align_w_anchor(gt, noise, max_seg_length=...)
InitAlign ==
    /\ pc = "align"
    /\ first_result = <<>>
    /\ NoAux
    /\ NoLcs /\ NoSelect
    /\ gt_txt \in Texts
    /\ ocr_txt \in Texts
    /\ \/ use_anchor = FALSE /\ max_seg_length = MAX_ALIGN_SEGMENT_LENGTH
       \/ use_anchor = TRUE /\ max_seg_length \in SegLengths
    /\ gap_char = GAP_CHAR
    /\ gt_tokens = <<>> /\ ocr_tokens = <<>> /\ gt_labels = <<>>
    /\ ocr_labels = <<>>
    /\ Blank /\ NoScan

\* the characters of the aligned strings given to parse_alignment: a letter,
\* the gap character, a space, and a whitespace character that is no space,
\* tab or newline
ParseChars == {"a", GAP_CHAR, " ", "\r"}

\* a call parse_alignment(aligned_gt, aligned_noise) with two strings of equal
\* length
InitParse ==
    /\ pc = "parse"
    /\ first_result = <<>>
    /\ NoAux
    /\ NoLcs /\ NoSelect
    /\ \E k \in 0..MaxAligned :
           /\ aligned_gt \in [1..k -> ParseChars]
           /\ aligned_ocr \in [1..k -> ParseChars]
    /\ gap_char = GAP_CHAR
    /\ gt_tokens = <<>> /\ ocr_tokens = <<>> /\ gt_labels = <<>>
    /\ gt_txt = <<>> /\ ocr_txt = <<>>
    /\ use_anchor = FALSE /\ max_seg_length = MAX_ALIGN_SEGMENT_LENGTH
    /\ gt_anchors = <<>> /\ ocr_anchors = <<>>
    /\ gt_to_ocr_mapping = <<>> /\ ocr_to_gt_mapping = <<>>
    /\ err = ""
    /\ ocr_labels = <<>>
    /\ NoScan

\* the length of the aligned strings that hold two tokens around a token of
\* gap characters
MaxGapped == 5

\* a call parse_alignment(aligned_gt, aligned_noise) with two strings of
\* MaxGapped characters, spaces the only whitespace
InitParseGapped ==
    /\ pc = "parse"
    /\ first_result = <<>>
    /\ NoAux
    /\ NoLcs /\ NoSelect
    /\ aligned_gt \in [1..MaxGapped -> {"a", GAP_CHAR, " "}]
    /\ aligned_ocr \in [1..MaxGapped -> {"a", GAP_CHAR, " "}]
    /\ gap_char = GAP_CHAR
    /\ gt_tokens = <<>> /\ ocr_tokens = <<>> /\ gt_labels = <<>>
    /\ gt_txt = <<>> /\ ocr_txt = <<>>
    /\ use_anchor = FALSE /\ max_seg_length = MAX_ALIGN_SEGMENT_LENGTH
    /\ gt_anchors = <<>> /\ ocr_anchors = <<>>
    /\ gt_to_ocr_mapping = <<>> /\ ocr_to_gt_mapping = <<>>
    /\ err = ""
    /\ ocr_labels = <<>>
    /\ NoScan

\* nothing of the calls of the alignment and the label modules is in use
NoCall ==
    /\ gt_tokens = <<>> /\ ocr_tokens = <<>> /\ gt_labels = <<>>
    /\ gt_txt = <<>> /\ ocr_txt = <<>>
    /\ use_anchor = FALSE /\ max_seg_length = MAX_ALIGN_SEGMENT_LENGTH
    /\ gap_char = GAP_CHAR
    /\ ocr_labels = <<>>
    /\ Blank /\ NoScan

\* the tokens given to _propagate_label_to_ocr: the empty one, a space, two
\* words, the gap character alone and after a space, a word, and a word
\* that holds the gap character
AnyTokens ==
    {<<>>, <<" ">>, <<"a", " ", "b">>, <<GAP_CHAR>>, <<" ", GAP_CHAR>>, <<"a">>,
     <<"a", GAP_CHAR>>}

\* a call _propagate_label_to_ocr(gt_labels, gt_tokens, ocr_tokens,
\* gap_char=GAP_CHAR, use_anchor=...)
InitPrivate ==
    /\ pc = "validate"
    /\ first_result = <<>>
    /\ NoAux
    /\ NoLcs /\ NoSelect
    /\ gt_tokens \in SeqsUpTo(AnyTokens, MaxSentence)
    /\ ocr_tokens \in SeqsUpTo(AnyTokens, MaxSentence)
    /\ gt_labels \in SeqsUpTo({LabelO, LabelBP}, MaxSentence)
    /\ use_anchor \in BOOLEAN
    /\ max_seg_length = MAX_ALIGN_SEGMENT_LENGTH
    /\ gap_char = GAP_CHAR
    /\ gt_txt = <<>> /\ ocr_txt = <<>>
    /\ ocr_labels = <<>>
    /\ Blank /\ NoScan

\* the characters of a set, one after the other
RECURSIVE SetToSeq(_)
SetToSeq(S) ==
    IF S = {} THEN <<>>
    ELSE LET c == CHOOSE x \in S : TRUE IN <<c>> \o SetToSeq(S \ {c})

\* tokens that together hold every character of GAP_CHAR_SET: the default gap
\* character, a letter, both, and the empty token; every other candidate in
\* a sentence of four tokens, and its two halves
RestOfGapChars == SetToSeq(GAP_CHAR_SET \ {GAP_CHAR, "a"})
RestQuarter == Len(RestOfGapChars) \div 4
RestTokens ==
    [k \in 1..4 |-> SubSeq(RestOfGapChars, (k - 1) * RestQuarter + 1,
                           IF k = 4 THEN Len(RestOfGapChars) ELSE k * RestQuarter)]
GapWords == {<<GAP_CHAR>>, <<"a">>, <<"a", GAP_CHAR>>, <<>>}
GtGapSentences ==
    SeqsUpTo(GapWords, MaxSentence)
        \cup {RestTokens \o s : s \in SeqsUpTo(GapWords, 1)}
        \cup {SubSeq(RestTokens, 1, 2) \o s : s \in SeqsUpTo(GapWords, 1)}
OcrGapSentences ==
    SeqsUpTo(GapWords, 1)
        \cup {RestTokens}
        \cup {SubSeq(RestTokens, 3, 4) \o s : s \in SeqsUpTo(GapWords, 1)}

\* a call propagate_label_to_ocr(gt_labels, gt_tokens, ocr_tokens, use_anchor)
\* whose tokens use up some or all of the gap character candidates; the long
\* tokens are given in the calls that end before the alignment: those that
\* leave no candidate, those with a wrong label count or with an empty token
InitGap ==
    /\ pc = "propagate"
    /\ first_result = <<>>
    /\ NoAux
    /\ NoLcs /\ NoSelect
    /\ gt_tokens \in GtGapSentences
    /\ ocr_tokens \in OcrGapSentences
    /\ gt_labels \in SeqsUpTo({LabelO}, MaxSentence)
    /\ Range(RestTokens) \cap Range(gt_tokens \o ocr_tokens) # {} =>
           \/ _find_gap_char_candidates(gt_tokens, ocr_tokens)[1] = {}
           \/ Len(gt_labels) # Len(gt_tokens)
           \/ <<>> \in Range(gt_tokens \o ocr_tokens)
    /\ use_anchor \in BOOLEAN
    /\ max_seg_length = MAX_ALIGN_SEGMENT_LENGTH
    /\ gap_char = ""
    /\ gt_txt = <<>> /\ ocr_txt = <<>>
    /\ ocr_labels = <<>>
    /\ Blank /\ NoScan

\* a call propagate_label_to_ocr(gt_labels, gt_tokens, ocr_tokens, use_anchor)
\* whose tokens are valid or invalid in every way, with and without the
\* default gap character, some using up the gap character candidates
InitPublic ==
    /\ pc = "propagate"
    /\ first_result = <<>>
    /\ NoAux
    /\ NoLcs /\ NoSelect
    /\ gt_tokens \in GtGapSentences \cup SeqsUpTo(AnyTokens, MaxSentence)
    /\ ocr_tokens \in OcrGapSentences \cup SeqsUpTo(AnyTokens, 1)
    /\ gt_labels \in SeqsUpTo({LabelO}, MaxSentence)
    /\ Range(RestTokens) \cap Range(gt_tokens \o ocr_tokens) # {} =>
           \/ _find_gap_char_candidates(gt_tokens, ocr_tokens)[1] = {}
           \/ Len(gt_labels) # Len(gt_tokens)
           \/ <<>> \in Range(gt_tokens \o ocr_tokens)
    /\ use_anchor \in BOOLEAN
    /\ max_seg_length = MAX_ALIGN_SEGMENT_LENGTH
    /\ gap_char = ""
    /\ gt_txt = <<>> /\ ocr_txt = <<>>
    /\ ocr_labels = <<>>
    /\ Blank /\ NoScan

\* values of gap_char: the default, a letter and the space of the strings, a
\* character foreign to them
GapChoices == {GAP_CHAR, "a", " ", "#"}

\* a call align(gt, noise, gap_char=...), followed through its branches
InitAlignCall ==
    /\ pc = "align_call"
    /\ first_result = <<>>
    /\ NoAux
    /\ NoLcs /\ NoSelect
    /\ gt_txt \in SeqsUpTo(Chars, MaxLen)
    /\ ocr_txt \in SeqsUpTo(Chars, MaxLen)
    /\ gap_char \in GapChoices
    /\ use_anchor = FALSE /\ max_seg_length = MAX_ALIGN_SEGMENT_LENGTH
    /\ gt_tokens = <<>> /\ ocr_tokens = <<>> /\ gt_labels = <<>>
    /\ ocr_labels = <<>>
    /\ Blank /\ NoScan

\* the regression case of a place name of two tokens: its tokens, its tags,
\* and the noisy readings of it (a token split, two tokens merged, both, a
\* token lost, the reference itself)
PlaceTokens == <<<<"N", "e", "w">>, <<"Y", "o", "r", "k">>>>
LabelBPlace == <<"B", "-", "P", "L", "A", "C", "E">>
LabelIPlace == <<"I", "-", "P", "L", "A", "C", "E">>
PlaceLabels == {<<x, y>> : x, y \in {LabelBPlace, LabelIPlace, LabelO}}
NoisyPlaces ==
    {<<<<"N">>, <<"e", "w">>, <<"Y", "o", "r", "k">>>>,
     <<<<"N">>, <<"e", "w", "Y", "o", "r", "k">>>>,
     <<<<"N", "e", "w", "Y", "o", "r", "k">>>>,
     <<<<"N", "e", "w">>, <<"Y", "o", "r", "k">>>>,
     <<<<"N", "e">>, <<"w", "Y", "o", "r", "k">>>>,
     <<<<"N", "e", "w">>>>,
     <<<<"n", "e", "w">>, <<"Y", "o", "r", "k">>>>}

\* a call propagate_label_to_ocr(gt_labels, ["New", "York"], ocr_tokens)
InitPlace ==
    /\ pc = "propagate"
    /\ first_result = <<>>
    /\ NoAux
    /\ NoLcs /\ NoSelect
    /\ gt_tokens = PlaceTokens
    /\ ocr_tokens \in NoisyPlaces
    /\ gt_labels \in PlaceLabels
    /\ use_anchor \in BOOLEAN
    /\ max_seg_length = MAX_ALIGN_SEGMENT_LENGTH
    /\ gap_char = ""
    /\ gt_txt = <<>> /\ ocr_txt = <<>>
    /\ ocr_labels = <<>>
    /\ Blank /\ NoScan

\* a call propagate_label_to_ocr(gt_labels, gt_tokens, ocr_tokens, use_anchor)
\* that is made twice: one reference token, with the default gap character in
\* it or without, and one noisy token
InitTwice ==
    /\ pc = "propagate"
    /\ first_result = <<>>
    /\ NoAux
    /\ NoLcs /\ NoSelect
    /\ gt_tokens \in {<<<<"a">>>>, <<<<"a", GAP_CHAR>>>>}
    /\ ocr_tokens = <<<<"a">>>>
    /\ gt_labels \in {<<LabelO>>, <<LabelBP>>}
    /\ use_anchor \in BOOLEAN
    /\ max_seg_length = MAX_ALIGN_SEGMENT_LENGTH
    /\ gap_char = ""
    /\ gt_txt = <<>> /\ ocr_txt = <<>>
    /\ ocr_labels = <<>>
    /\ Blank /\ NoScan

\* the words of the token lists given to find_anchor_recur
AnchorWords == Words

\* a call find_anchor_recur(gt_tokens, ocr_tokens, max_seg_length=...),
\* followed call by call
InitAnchorRecur ==
    /\ pc = "anchor_recur"
    /\ first_result = <<>>
    /\ NoLcs /\ NoSelect
    /\ gt_tokens \in SeqsUpTo(AnchorWords, MaxTokens)
    /\ ocr_tokens \in SeqsUpTo(AnchorWords, MaxTokens)
    /\ max_seg_length \in SegLengths
    /\ anchor_calls = << [gt |-> gt_tokens, ocr |-> ocr_tokens,
                          start_pos_gt |-> 0, start_pos_ocr |-> 0,
                          shift_gt |-> 0, shift_ocr |-> 0] >>
    /\ min_anchor_len = 2
    /\ clean_sentences = <<>> /\ ocr_text_sentences = <<>>
    /\ ocr_labels_sentences = <<>>
    /\ gt_labels = <<>> /\ use_anchor = TRUE
    /\ gap_char = GAP_CHAR
    /\ gt_txt = <<>> /\ ocr_txt = <<>>
    /\ ocr_labels = <<>>
    /\ Blank /\ NoScan

\* list(itertools.chain(*clean_sentences))
RECURSIVE merged_sentences(_)
merged_sentences(sentences) ==
    IF sentences = <<>> THEN <<>>
    ELSE Head(sentences) \o merged_sentences(Tail(sentences))

\* propagate_labels_sentences, step 3: the index of the first token of every
\* sentence, and the token count at the end
RECURSIVE sentence_index(_, _)
sentence_index(sentences, sentence_token_counts) ==
    IF sentences = <<>> THEN <<sentence_token_counts>>
    ELSE <<sentence_token_counts>>
         \o sentence_index(Tail(sentences), sentence_token_counts + Len(Head(sentences)))

\* gt_to_ocr_mapping_is_empty.index(False, start), 0-based; -1 stands for
\* the ValueError of list.index
index_of_mapped(mapping, start) ==
    LET found == {k \in start..(Len(mapping) - 1) : Len(mapping[k + 1]) >= 1}
    IN  IF found = {} THEN -1 ELSE CHOOSE k \in found : \A l \in found : k <= l

\* a faulty ocr_start: without the corner case of a first token that is
\* mapped to no OCR token
sentence_ocr_start_next(mapping, gt_start, num_ocr_tokens) ==
    IF gt_start >= Len(mapping) THEN -1
    ELSE IF Len(mapping[gt_start + 1]) < 1
    THEN IF index_of_mapped(mapping, gt_start) = -1 THEN num_ocr_tokens
         ELSE mapping[index_of_mapped(mapping, gt_start) + 1][1]
    ELSE mapping[gt_start + 1][1]

\* propagate_labels_sentences, step 4: ocr_start of the sentence that begins
\* at gt_start; -1 stands for the IndexError of gt_to_ocr_mapping[gt_start]
sentence_ocr_start(mapping, gt_start, num_ocr_tokens) ==
    IF gt_start >= Len(mapping) THEN -1
    ELSE IF gt_start = 0 /\ Len(mapping[gt_start + 1]) < 1 THEN 0
    ELSE IF Len(mapping[gt_start + 1]) < 1
    THEN IF index_of_mapped(mapping, gt_start) = -1 THEN num_ocr_tokens
         ELSE mapping[index_of_mapped(mapping, gt_start) + 1][1]
    ELSE mapping[gt_start + 1][1]

\* propagate_labels_sentences, step 4: ocr_end of the sentence that ends
\* before gt_end
sentence_ocr_end(mapping, gt_end, num_ocr_tokens) ==
    IF gt_end >= Len(mapping) THEN num_ocr_tokens
    ELSE IF Len(mapping[gt_end + 1]) < 1
    THEN IF index_of_mapped(mapping, gt_end) = -1 THEN num_ocr_tokens
         ELSE mapping[index_of_mapped(mapping, gt_end) + 1][1]
    ELSE mapping[gt_end + 1][1]

\* propagate_labels_sentences, step 4: the slices of a list of one entry per
\* OCR token (the tokens, the labels), one slice per clean sentence
split_sentences(per_token, mapping, index, num_ocr_tokens) ==
    [k \in 1..(Len(index) - 1) |->
        Slice(per_token, sentence_ocr_start(mapping, index[k], num_ocr_tokens),
              IF sentence_ocr_end(mapping, index[k + 1], num_ocr_tokens) = -1
              THEN Len(per_token) + 1
              ELSE sentence_ocr_end(mapping, index[k + 1], num_ocr_tokens))]

\* the clean sentences: up to MaxSentence + 1 sentences of up to MaxSentence
\* words, empty sentences included, that make up a token list of Sentences
CleanSentences ==
    {cs \in SeqsUpTo(SeqsUpTo(Words, MaxSentence), MaxSentence + 1) :
        merged_sentences(cs) \in Sentences}

\* a call propagate_labels_sentences(clean_tokens, clean_labels,
\* clean_sentences, ocr_tokens); clean_tokens are the tokens of the sentences
\* or all but the first of them
InitSentences ==
    /\ pc = "sentences"
    /\ first_result = <<>>
    /\ NoLcs /\ NoSelect
    /\ clean_sentences \in CleanSentences
    /\ gt_tokens \in {merged_sentences(clean_sentences), Slice(merged_sentences(clean_sentences), 1, -1)}
    /\ ocr_tokens \in Sentences
    /\ gt_labels \in {[k \in 1..Len(gt_tokens) |-> LabelO],
                       [k \in 1..Len(gt_tokens) |-> IF k = 1 THEN LabelBP ELSE LabelIP]}
    /\ use_anchor = TRUE
    /\ anchor_calls = <<>> /\ min_anchor_len = 2
    /\ ocr_text_sentences = <<>>
    /\ ocr_labels_sentences = <<>>
    /\ max_seg_length = MAX_ALIGN_SEGMENT_LENGTH
    /\ gap_char = ""
    /\ gt_txt = <<>> /\ ocr_txt = <<>>
    /\ ocr_labels = <<>>
    /\ Blank /\ NoScan

\* a call get_anchor_map(gt_tokens, ocr_tokens, min_anchor_len=...), the
\* default 2 included
InitAnchorMap ==
    /\ pc = "anchor_map"
    /\ first_result = <<>>
    /\ NoLcs /\ NoSelect
    /\ gt_tokens \in SeqsUpTo(AnchorWords, MaxTokens)
    /\ ocr_tokens \in SeqsUpTo(AnchorWords, MaxTokens)
    /\ min_anchor_len \in 0..MaxLen
    /\ anchor_calls = <<>>
    /\ clean_sentences = <<>> /\ ocr_text_sentences = <<>>
    /\ ocr_labels_sentences = <<>>
    /\ max_seg_length = MAX_ALIGN_SEGMENT_LENGTH
    /\ gt_labels = <<>> /\ use_anchor = TRUE
    /\ gap_char = GAP_CHAR
    /\ gt_txt = <<>> /\ ocr_txt = <<>>
    /\ ocr_labels = <<>>
    /\ Blank /\ NoScan

\* candidate alignments (aligned_gt, aligned_noise): of one and of two
\* reference tokens, with gap characters, of equal and of unequal lengths,
\* and the empty one
Candidates ==
    { << <<"a">>, <<"a">> >>,
      << <<"a", GAP_CHAR>>, <<"a", "b">> >>,
      << <<GAP_CHAR, " ", "a">>, <<"b", " ", "a">> >>,
      << <<"a", " ", "b">>, <<"a", GAP_CHAR, "b">> >>,
      << <<"a">>, <<"a", "b">> >>,
      << <<"a", " ", "b">>, <<"a", "b">> >>,
      << <<>>, <<>> >> }

\* a call _select_alignment_candidates(alignments, target_num_gt_tokens)
InitSelect ==
    /\ pc = "select"
    /\ first_result = <<>>
    /\ NoAux
    /\ sel_alignments \in SeqsUpTo(Candidates, MaxCandidates)
    /\ sel_target \in 0..MaxTarget
    /\ NoLcs /\ NoCall

\* a construction LCS(str_m, str_n)
InitLcs ==
    /\ pc = "lcs"
    /\ first_result = <<>>
    /\ NoAux
    /\ lcs_str_m \in SeqsUpTo(Chars, MaxLcs)
    /\ lcs_str_n \in SeqsUpTo(Chars, MaxLcs)
    /\ lcs_dp_table = <<>>
    /\ lcs_m = 0 /\ lcs_n = 0 /\ _lcs = <<>> /\ _lcs_len = 0
    /\ NoSelect /\ NoCall

\* a call correct_ner_labels(labels); ocr_labels keeps the list as it was
\* when the call was made
InitCorrect ==
    /\ pc = "correct"
    /\ first_result = <<>>
    /\ NoAux
    /\ NoLcs /\ NoSelect
    /\ labels \in LabelLists
    /\ ocr_labels = labels
    /\ cur_i = 0
    /\ cur_begin_label = <<>>
    /\ gt_tokens = <<>> /\ ocr_tokens = <<>> /\ gt_labels = <<>>
    /\ gt_txt = <<>> /\ ocr_txt = <<>>
    /\ use_anchor = FALSE /\ max_seg_length = MAX_ALIGN_SEGMENT_LENGTH
    /\ gap_char = GAP_CHAR
    /\ Blank

----------------------------------------------------------------------------
(* The calls, step by step *)

RaiseError(e) == pc' = "raised" /\ err' = e

\* propagate_label_to_ocr: the choice of the gap character
ChooseGapChar ==
    /\ pc = "propagate"
    /\ LET gap_char_candidates == _find_gap_char_candidates(gt_tokens, ocr_tokens)[1]
       IN  IF gap_char_candidates = {}
           THEN RaiseError("GapCharError") /\ UNCHANGED gap_char
           ELSE /\ IF GAP_CHAR \in gap_char_candidates
                   THEN gap_char' = GAP_CHAR
                   ELSE gap_char' \in gap_char_candidates
                /\ pc' = "validate"
                /\ UNCHANGED err
    /\ UNCHANGED <<aux_vars, first_result, lcs_vars, sel_vars, gt_txt, ocr_txt, gt_tokens, ocr_tokens, gt_labels, use_anchor,
                   max_seg_length, gt_anchors, ocr_anchors, aligned_gt, aligned_ocr,
                   gt_to_ocr_mapping, ocr_to_gt_mapping, ocr_labels, labels, cur_i,
                   cur_begin_label>>

\* _propagate_label_to_ocr: the sanity checks, then the two join_tokens
Validate ==
    /\ pc = "validate"
    /\ LET e == validate_input(gt_labels, gt_tokens, ocr_tokens, gap_char)
       IN  IF e # ""
           THEN RaiseError(e) /\ UNCHANGED <<gt_txt, ocr_txt>>
           ELSE /\ gt_txt' = join_tokens(gt_tokens)
                /\ ocr_txt' = join_tokens(ocr_tokens)
                /\ pc' = "align"
                /\ UNCHANGED err
    /\ UNCHANGED <<aux_vars, first_result, lcs_vars, sel_vars, gt_tokens, ocr_tokens, gt_labels, use_anchor, max_seg_length,
                   gap_char, gt_anchors, ocr_anchors, aligned_gt, aligned_ocr,
                   gt_to_ocr_mapping, ocr_to_gt_mapping, ocr_labels, labels, cur_i,
                   cur_begin_label>>

\* alignment.align(gt_txt, ocr_txt, gap_char=gap_char)
AlignBaseline ==
    /\ pc = "align"
    /\ ~use_anchor
    /\ LET r == align(gt_txt, ocr_txt, gap_char)
       IN  IF r.err # ""
           THEN RaiseError(r.err) /\ UNCHANGED <<aligned_gt, aligned_ocr>>
           ELSE /\ aligned_gt' = r.aligned_gt
                /\ aligned_ocr' = r.aligned_noise
                /\ pc' = "parse"
                /\ UNCHANGED err
    /\ UNCHANGED <<aux_vars, first_result, lcs_vars, sel_vars, gt_txt, ocr_txt, gt_tokens, ocr_tokens, gt_labels, use_anchor,
                   max_seg_length, gap_char, gt_anchors, ocr_anchors,
                   gt_to_ocr_mapping, ocr_to_gt_mapping, ocr_labels, labels, cur_i,
                   cur_begin_label>>

\* the outcome of find_anchor_recur inside align_w_anchor
SetAnchors(r) ==
    IF r.err # ""
    THEN RaiseError(r.err) /\ UNCHANGED <<gt_anchors, ocr_anchors>>
    ELSE /\ gt_anchors' = r.gt
         /\ ocr_anchors' = r.ocr
         /\ pc' = "segments"
         /\ UNCHANGED err

\* anchor.align_w_anchor, first half: tokenize both strings, find_anchor_recur
FindAnchors ==
    /\ pc = "align"
    /\ use_anchor
    /\ gt_tokens' = tokenize(gt_txt)
    /\ ocr_tokens' = tokenize(ocr_txt)
    /\ SetAnchors(find_anchor_recur(tokenize(gt_txt), tokenize(ocr_txt), max_seg_length))
    /\ UNCHANGED <<aux_vars, first_result, lcs_vars, sel_vars, gt_txt, ocr_txt, gt_labels, use_anchor, max_seg_length, gap_char,
                   aligned_gt, aligned_ocr, gt_to_ocr_mapping, ocr_to_gt_mapping,
                   ocr_labels, labels, cur_i, cur_begin_label>>

\* anchor.align_w_anchor, second half: align the segment pairs and join them
AlignWithAnchors ==
    /\ pc = "segments"
    /\ LET r == align_segments_at(gt_tokens, ocr_tokens, gt_anchors, ocr_anchors, gap_char)
       IN  IF r.err # ""
           THEN RaiseError(r.err) /\ UNCHANGED <<aligned_gt, aligned_ocr>>
           ELSE /\ aligned_gt' = r.aligned_gt
                /\ aligned_ocr' = r.aligned_noise
                /\ pc' = "parse"
                /\ UNCHANGED err
    /\ UNCHANGED <<aux_vars, first_result, lcs_vars, sel_vars, gt_txt, ocr_txt, gt_tokens, ocr_tokens, gt_labels, use_anchor,
                   max_seg_length, gap_char, gt_anchors, ocr_anchors,
                   gt_to_ocr_mapping, ocr_to_gt_mapping, ocr_labels, labels, cur_i,
                   cur_begin_label>>

\* a faulty call of parse_alignment: the entries of the tokens with no
\* correspondence are dropped from the two arrays
ParseAlignmentDropEmpty ==
    /\ pc = "parse"
    /\ gt_to_ocr_mapping' = SelectSeq(parse_alignment(aligned_gt, aligned_ocr, gap_char).gt_to_noise,
                                      LAMBDA e : e # <<>>)
    /\ ocr_to_gt_mapping' = SelectSeq(parse_alignment(aligned_gt, aligned_ocr, gap_char).noise_to_gt,
                                      LAMBDA e : e # <<>>)
    /\ pc' = "parsed"
    /\ UNCHANGED <<aux_vars, first_result, lcs_vars, sel_vars, gt_txt, ocr_txt, gt_tokens, ocr_tokens, gt_labels, use_anchor,
                   max_seg_length, gap_char, gt_anchors, ocr_anchors, aligned_gt,
                   aligned_ocr, ocr_labels, labels, cur_i, cur_begin_label, err>>

\* alignment.parse_alignment(aligned_gt, aligned_ocr, gap_char=gap_char)
ParseAlignment ==
    /\ pc = "parse"
    /\ LET r == parse_alignment(aligned_gt, aligned_ocr, gap_char)
       IN  IF r.err # ""
           THEN RaiseError(r.err) /\ UNCHANGED <<gt_to_ocr_mapping, ocr_to_gt_mapping>>
           ELSE /\ gt_to_ocr_mapping' = r.gt_to_noise
                /\ ocr_to_gt_mapping' = r.noise_to_gt
                /\ pc' = "parsed"
                /\ UNCHANGED err
    /\ UNCHANGED <<aux_vars, first_result, lcs_vars, sel_vars, gt_txt, ocr_txt, gt_tokens, ocr_tokens, gt_labels, use_anchor,
                   max_seg_length, gap_char, gt_anchors, ocr_anchors, aligned_gt,
                   aligned_ocr, ocr_labels, labels, cur_i, cur_begin_label>>

\* _propagate_label_to_ocr: "Check invariant" after parse_alignment
CheckInvariant ==
    /\ pc = "parsed"
    /\ IF Len(gt_to_ocr_mapping) # Len(gt_tokens)
       THEN RaiseError("ValueError: Alignment modified number of gt_tokens")
       ELSE pc' = "step1" /\ UNCHANGED err
    /\ UNCHANGED <<aux_vars, first_result, lcs_vars, sel_vars, gt_txt, ocr_txt, gt_tokens, ocr_tokens, gt_labels, use_anchor,
                   max_seg_length, gap_char, gt_anchors, ocr_anchors, aligned_gt,
                   aligned_ocr, gt_to_ocr_mapping, ocr_to_gt_mapping, ocr_labels,
                   labels, cur_i, cur_begin_label>>

\* _propagate_label_to_ocr STEP 1: naive propagation
NaivePropagate ==
    /\ pc = "step1"
    /\ ocr_labels' = naive_labels(ocr_to_gt_mapping, gt_labels)
    /\ pc' = "step2a"
    /\ UNCHANGED <<aux_vars, first_result, lcs_vars, sel_vars, gt_txt, ocr_txt, gt_tokens, ocr_tokens, gt_labels, use_anchor,
                   max_seg_length, gap_char, gt_anchors, ocr_anchors, aligned_gt,
                   aligned_ocr, gt_to_ocr_mapping, ocr_to_gt_mapping, labels, cur_i,
                   cur_begin_label, err>>

\* _propagate_label_to_ocr STEP 2a: trailing Begin labels
TrailingBegin ==
    /\ pc = "step2a"
    /\ LET r == trailing_begin([err |-> "", labels |-> ocr_labels],
                               gt_to_ocr_mapping, gt_labels, 0)
       IN  /\ ocr_labels' = r.labels
           /\ IF r.err # "" THEN RaiseError(r.err)
              ELSE pc' = "step2b" /\ UNCHANGED err
    /\ UNCHANGED <<aux_vars, first_result, lcs_vars, sel_vars, gt_txt, ocr_txt, gt_tokens, ocr_tokens, gt_labels, use_anchor,
                   max_seg_length, gap_char, gt_anchors, ocr_anchors, aligned_gt,
                   aligned_ocr, gt_to_ocr_mapping, ocr_to_gt_mapping, labels, cur_i,
                   cur_begin_label>>

\* _propagate_label_to_ocr STEP 2b and the return
CorrectLabels ==
    /\ pc = "step2b"
    /\ ocr_labels' = correct_ner_labels(ocr_labels)
    /\ pc' = "returned"
    /\ UNCHANGED <<aux_vars, first_result, lcs_vars, sel_vars, gt_txt, ocr_txt, gt_tokens, ocr_tokens, gt_labels, use_anchor,
                   max_seg_length, gap_char, gt_anchors, ocr_anchors, aligned_gt,
                   aligned_ocr, gt_to_ocr_mapping, ocr_to_gt_mapping, labels, cur_i,
                   cur_begin_label, err>>

\* correct_ner_labels: one iteration of "for i, label in enumerate(labels)"
CorrectStep ==
    /\ pc = "correct"
    /\ cur_i < Len(labels)
    /\ LET st == correct_ner_labels_step(
                     [labels |-> labels, i |-> cur_i, cur_begin_label |-> cur_begin_label])
       IN  /\ labels' = st.labels
           /\ cur_i' = st.i
           /\ cur_begin_label' = st.cur_begin_label
    /\ UNCHANGED <<aux_vars, first_result, lcs_vars, sel_vars, pc, gt_txt, ocr_txt, gt_tokens, ocr_tokens, gt_labels, use_anchor,
                   max_seg_length, gap_char, gt_anchors, ocr_anchors, aligned_gt,
                   aligned_ocr, gt_to_ocr_mapping, ocr_to_gt_mapping, ocr_labels, err>>

\* correct_ner_labels: "return labels"
CorrectReturn ==
    /\ pc = "correct"
    /\ cur_i >= Len(labels)
    /\ pc' = "corrected"
    /\ UNCHANGED <<aux_vars, first_result, lcs_vars, sel_vars, gt_txt, ocr_txt, gt_tokens, ocr_tokens, gt_labels, use_anchor,
                   max_seg_length, gap_char, gt_anchors, ocr_anchors, aligned_gt,
                   aligned_ocr, gt_to_ocr_mapping, ocr_to_gt_mapping, ocr_labels,
                   labels, cur_i, cur_begin_label, err>>

----------------------------------------------------------------------------
(* The specifications *)

Next ==
    \/ ChooseGapChar
    \/ Validate
    \/ AlignBaseline
    \/ FindAnchors
    \/ AlignWithAnchors
    \/ ParseAlignment
    \/ CheckInvariant
    \/ NaivePropagate
    \/ TrailingBegin
    \/ CorrectLabels

\* propagate_label_to_ocr, from the call to the return or the exception
Spec == Init /\ [][Next]_vars

\* propagate_label_to_ocr on tokens that use up gap character candidates
SpecGap == InitGap /\ [][Next]_vars

\* propagate_label_to_ocr on valid and invalid tokens
SpecPublic == InitPublic /\ [][Next]_vars

\* propagate_label_to_ocr on the readings of a place name
SpecPlace == InitPlace /\ [][Next]_vars

\* the caller keeps the tuple returned and calls again with the same arguments
CallAgain ==
    /\ pc = "returned"
    /\ first_result = <<>>
    /\ first_result' = <<ocr_labels, aligned_gt, aligned_ocr, gap_char>>
    /\ pc' = "propagate"
    /\ gap_char' = ""
    /\ gt_txt' = <<>> /\ ocr_txt' = <<>>
    /\ ocr_labels' = <<>>
    /\ gt_anchors' = <<>> /\ ocr_anchors' = <<>>
    /\ aligned_gt' = <<>> /\ aligned_ocr' = <<>>
    /\ gt_to_ocr_mapping' = <<>> /\ ocr_to_gt_mapping' = <<>>
    /\ labels' = <<>> /\ cur_i' = 0 /\ cur_begin_label' = <<>>
    /\ UNCHANGED <<aux_vars, lcs_vars, sel_vars, gt_tokens, ocr_tokens, gt_labels,
                   use_anchor, max_seg_length, err>>

NextTwice ==
    \/ Next
    \/ CallAgain

\* two calls of propagate_label_to_ocr with the same arguments
SpecTwice == InitTwice /\ [][NextTwice]_vars

\* propagate_labels_sentences: the checks of the arguments, before
\* propagate_label_to_ocr is called
CheckSentences ==
    /\ pc = "sentences"
    /\ IF merged_sentences(clean_sentences) # gt_tokens
       THEN RaiseError("ValueError: Inconsistent tokens")
       ELSE IF Len(ocr_tokens) = 0
       THEN RaiseError("ValueError: Empty OCR tokens")
       ELSE IF Len(gt_tokens) = 0
       THEN RaiseError("ValueError: Empty clean tokens")
       ELSE pc' = "propagate" /\ UNCHANGED err
    /\ UNCHANGED <<aux_vars, first_result, lcs_vars, sel_vars, gt_txt, ocr_txt, gt_tokens,
                   ocr_tokens, gt_labels, use_anchor, max_seg_length, gap_char, gt_anchors,
                   ocr_anchors, aligned_gt, aligned_ocr, gt_to_ocr_mapping,
                   ocr_to_gt_mapping, ocr_labels, labels, cur_i, cur_begin_label>>

\* propagate_labels_sentences, steps 2 to 4, after propagate_label_to_ocr has
\* returned: parse_alignment once more, then the split into sentences
SplitSentences ==
    /\ pc = "returned"
    /\ LET r == parse_alignment(aligned_gt, aligned_ocr, gap_char)
           index == sentence_index(clean_sentences, 0)
       IN  IF r.err # ""
           THEN RaiseError(r.err)
                /\ UNCHANGED <<gt_to_ocr_mapping, ocr_to_gt_mapping, ocr_text_sentences,
                               ocr_labels_sentences>>
           ELSE IF \E k \in 1..(Len(index) - 1) : index[k] >= Len(r.gt_to_noise)
           THEN RaiseError("IndexError")
                /\ UNCHANGED <<gt_to_ocr_mapping, ocr_to_gt_mapping, ocr_text_sentences,
                               ocr_labels_sentences>>
           ELSE /\ gt_to_ocr_mapping' = r.gt_to_noise
                /\ ocr_to_gt_mapping' = r.noise_to_gt
                /\ ocr_text_sentences' =
                       split_sentences(ocr_tokens, r.gt_to_noise, index, Len(ocr_tokens))
                /\ ocr_labels_sentences' =
                       split_sentences(ocr_labels, r.gt_to_noise, index, Len(ocr_tokens))
                /\ pc' = "sentences_returned"
                /\ UNCHANGED err
    /\ UNCHANGED <<anchor_calls, min_anchor_len, clean_sentences, first_result,
                   lcs_vars, sel_vars, gt_txt, ocr_txt, gt_tokens, ocr_tokens, gt_labels,
                   use_anchor, max_seg_length, gap_char, gt_anchors, ocr_anchors,
                   aligned_gt, aligned_ocr, ocr_labels, labels, cur_i, cur_begin_label>>

\* propagate_label_to_ocr is called with use_anchor at its default
NextSentences ==
    \/ CheckSentences
    \/ ChooseGapChar
    \/ Validate
    \/ FindAnchors
    \/ AlignWithAnchors
    \/ ParseAlignment
    \/ CheckInvariant
    \/ NaivePropagate
    \/ TrailingBegin
    \/ CorrectLabels
    \/ SplitSentences

\* propagate_labels_sentences, from the call to the return or the exception
SpecSentences == InitSentences /\ [][NextSentences]_vars

\* get_anchor_map(gt_tokens, ocr_tokens, min_anchor_len=...): the body does
\* not read min_anchor_len; the two word maps are kept in gt_anchors and
\* ocr_anchors
GetAnchorMap ==
    /\ pc = "anchor_map"
    /\ gt_anchors' = get_anchor_map(gt_tokens, ocr_tokens)[1]
    /\ ocr_anchors' = get_anchor_map(gt_tokens, ocr_tokens)[2]
    /\ pc' = "anchor_map_returned"
    /\ UNCHANGED <<aux_vars, first_result, lcs_vars, sel_vars, gt_txt, ocr_txt, gt_tokens,
                   ocr_tokens, gt_labels, use_anchor, max_seg_length, gap_char, aligned_gt,
                   aligned_ocr, gt_to_ocr_mapping, ocr_to_gt_mapping, ocr_labels, labels,
                   cur_i, cur_begin_label, err>>

NextAnchorMap == GetAnchorMap

SpecAnchorMap == InitAnchorMap /\ [][NextAnchorMap]_vars

\* a faulty recursion: on the whole segment, its first token included
AnchorCallsOnWholeSegments(call, max_len) ==
    LET anchor_map == get_anchor_map(call.gt, call.ocr)
        gt_segments == Segments(call.gt, indices_of(anchor_map[1]))
        ocr_segments == Segments(call.ocr, indices_of(anchor_map[2]))
        seg_start_gt == <<0>> \o indices_of(anchor_map[1])
        seg_start_ocr == <<0>> \o indices_of(anchor_map[2])
        Recurs(k) == \/ segment_len(gt_segments[k]) > max_len
                     \/ segment_len(ocr_segments[k]) > max_len
        ks == SelectSeq([k \in 1..Min2(Len(gt_segments), Len(ocr_segments)) |-> k], Recurs)
    IN  [j \in 1..Len(ks) |->
            [gt |-> gt_segments[ks[j]],
             ocr |-> ocr_segments[ks[j]],
             start_pos_gt |-> seg_start_gt[ks[j]] + 1,
             start_pos_ocr |-> seg_start_ocr[ks[j]] + 1,
             shift_gt |-> call.shift_gt + call.start_pos_gt,
             shift_ocr |-> call.shift_ocr + call.start_pos_ocr]]

\* find_anchor_recur, step 4: the recursive calls a call makes, one for each
\* segment pair with a segment longer than max_seg_length, on gt_seg[1:] and
\* ocr_seg[1:]; the results of a call are shifted by the start positions of
\* the calls above it
AnchorCalls(call, max_len) ==
    LET anchor_map == get_anchor_map(call.gt, call.ocr)
        gt_segments == Segments(call.gt, indices_of(anchor_map[1]))
        ocr_segments == Segments(call.ocr, indices_of(anchor_map[2]))
        seg_start_gt == <<0>> \o indices_of(anchor_map[1])
        seg_start_ocr == <<0>> \o indices_of(anchor_map[2])
        Recurs(k) == \/ segment_len(gt_segments[k]) > max_len
                     \/ segment_len(ocr_segments[k]) > max_len
        ks == SelectSeq([k \in 1..Min2(Len(gt_segments), Len(ocr_segments)) |-> k], Recurs)
    IN  [j \in 1..Len(ks) |->
            [gt |-> Slice(gt_segments[ks[j]], 1, -1),
             ocr |-> Slice(ocr_segments[ks[j]], 1, -1),
             start_pos_gt |-> seg_start_gt[ks[j]] + 1,
             start_pos_ocr |-> seg_start_ocr[ks[j]] + 1,
             shift_gt |-> call.shift_gt + call.start_pos_gt,
             shift_ocr |-> call.shift_ocr + call.start_pos_ocr]]

\* find_anchor_recur: one call, from get_anchor_map to the recursive calls it
\* makes; the anchors found are added to the output, in sorted order
AnchorCall ==
    /\ pc = "anchor_recur"
    /\ anchor_calls # <<>>
    /\ LET call == Head(anchor_calls)
           anchor_map == get_anchor_map(call.gt, call.ocr)
       IN  IF Len(anchor_map[1]) # Len(anchor_map[2])
           THEN RaiseError("ValueError")
                /\ UNCHANGED <<anchor_calls, gt_anchors, ocr_anchors>>
           ELSE IF Len(anchor_map[1]) = 0
           THEN /\ anchor_calls' = Tail(anchor_calls)
                /\ UNCHANGED <<pc, err, gt_anchors, ocr_anchors>>
           ELSE /\ gt_anchors' = sorted(Range(gt_anchors) \cup
                        {x + call.start_pos_gt + call.shift_gt : x \in Range(indices_of(anchor_map[1]))})
                /\ ocr_anchors' = sorted(Range(ocr_anchors) \cup
                        {x + call.start_pos_ocr + call.shift_ocr : x \in Range(indices_of(anchor_map[2]))})
                /\ anchor_calls' = AnchorCalls(call, max_seg_length) \o Tail(anchor_calls)
                /\ UNCHANGED <<pc, err>>
    /\ UNCHANGED <<min_anchor_len, clean_sentences, ocr_text_sentences,
                   ocr_labels_sentences,
                   first_result, lcs_vars, sel_vars, gt_txt, ocr_txt, gt_tokens, ocr_tokens,
                   gt_labels, use_anchor, max_seg_length, gap_char, aligned_gt, aligned_ocr,
                   gt_to_ocr_mapping, ocr_to_gt_mapping, ocr_labels, labels, cur_i,
                   cur_begin_label>>

\* find_anchor_recur: every call has returned
AnchorReturn ==
    /\ pc = "anchor_recur"
    /\ anchor_calls = <<>>
    /\ pc' = "anchors_found"
    /\ UNCHANGED <<aux_vars, first_result, lcs_vars, sel_vars, call_vars>>

NextAnchorRecur ==
    \/ AnchorCall
    \/ AnchorReturn

\* find_anchor_recur, call by call
SpecAnchorRecur == InitAnchorRecur /\ [][NextAnchorRecur]_vars

NextAlign ==
    \/ AlignBaseline
    \/ FindAnchors
    \/ AlignWithAnchors
    \/ ParseAlignment

\* align or align_w_anchor on two strings, then parse_alignment on the result
SpecAlign == InitAlign /\ [][NextAlign]_vars

NextCorrect ==
    \/ CorrectStep
    \/ CorrectReturn

\* correct_ner_labels on a label list
SpecCorrect == InitCorrect /\ [][NextCorrect]_vars

NextPrivate ==
    \/ Validate
    \/ AlignBaseline
    \/ FindAnchors
    \/ AlignWithAnchors
    \/ ParseAlignment
    \/ CheckInvariant
    \/ NaivePropagate
    \/ TrailingBegin
    \/ CorrectLabels

SpecPrivate == InitPrivate /\ [][NextPrivate]_vars

\* LCS.__init__: the lengths, the table, _lcs_len, and the start of
\* _find_lcs_str (m, n = the lengths, lcs = "")
LcsConstruct ==
    /\ pc = "lcs"
    /\ lcs_dp_table' = _construct_dp_table(lcs_str_m, lcs_str_n)
    /\ _lcs_len' = lcs_dp_table'[Len(lcs_str_m) + 1][Len(lcs_str_n) + 1]
    /\ lcs_m' = Len(lcs_str_m)
    /\ lcs_n' = Len(lcs_str_n)
    /\ _lcs' = <<>>
    /\ pc' = "lcs_find"
    /\ UNCHANGED <<lcs_str_m, lcs_str_n, sel_vars, call_vars, first_result, aux_vars>>

\* a faulty iteration: on equal characters the cursors move and the character
\* is not prepended
LcsBacktrackSkip ==
    /\ pc = "lcs_find"
    /\ lcs_m > 0 /\ lcs_n > 0
    /\ IF lcs_str_m[lcs_m] = lcs_str_n[lcs_n]
       THEN lcs_m' = lcs_m - 1 /\ lcs_n' = lcs_n - 1 /\ _lcs' = _lcs
       ELSE IF lcs_dp_table[lcs_m][lcs_n + 1] > lcs_dp_table[lcs_m + 1][lcs_n]
       THEN lcs_m' = lcs_m - 1 /\ lcs_n' = lcs_n /\ _lcs' = _lcs
       ELSE lcs_m' = lcs_m /\ lcs_n' = lcs_n - 1 /\ _lcs' = _lcs
    /\ UNCHANGED <<pc, lcs_str_m, lcs_str_n, lcs_dp_table, _lcs_len, sel_vars, call_vars, first_result, aux_vars>>

\* a faulty iteration: on different characters the walk moves up unless the
\* left neighbour is strictly greater
LcsBacktrackUp ==
    /\ pc = "lcs_find"
    /\ lcs_m > 0 /\ lcs_n > 0
    /\ IF lcs_str_m[lcs_m] = lcs_str_n[lcs_n]
       THEN /\ _lcs' = <<lcs_str_m[lcs_m]>> \o _lcs
            /\ lcs_m' = lcs_m - 1
            /\ lcs_n' = lcs_n - 1
       ELSE IF lcs_dp_table[lcs_m][lcs_n + 1] >= lcs_dp_table[lcs_m + 1][lcs_n]
       THEN lcs_m' = lcs_m - 1 /\ lcs_n' = lcs_n /\ _lcs' = _lcs
       ELSE lcs_m' = lcs_m /\ lcs_n' = lcs_n - 1 /\ _lcs' = _lcs
    /\ UNCHANGED <<pc, lcs_str_m, lcs_str_n, lcs_dp_table, _lcs_len, sel_vars, call_vars, first_result, aux_vars>>

\* LCS._find_lcs_str: one iteration of  while m > 0 and n > 0
LcsBacktrack ==
    /\ pc = "lcs_find"
    /\ lcs_m > 0 /\ lcs_n > 0
    /\ IF lcs_str_m[lcs_m] = lcs_str_n[lcs_n]
       THEN /\ _lcs' = <<lcs_str_m[lcs_m]>> \o _lcs
            /\ lcs_m' = lcs_m - 1
            /\ lcs_n' = lcs_n - 1
       ELSE IF lcs_dp_table[lcs_m][lcs_n + 1] > lcs_dp_table[lcs_m + 1][lcs_n]
       THEN lcs_m' = lcs_m - 1 /\ lcs_n' = lcs_n /\ _lcs' = _lcs
       ELSE lcs_m' = lcs_m /\ lcs_n' = lcs_n - 1 /\ _lcs' = _lcs
    /\ UNCHANGED <<pc, lcs_str_m, lcs_str_n, lcs_dp_table, _lcs_len, sel_vars, call_vars, first_result, aux_vars>>

\* LCS._find_lcs_str: the loop ends, lcs is returned and kept as self._lcs
LcsReturn ==
    /\ pc = "lcs_find"
    /\ ~(lcs_m > 0 /\ lcs_n > 0)
    /\ pc' = "lcs_done"
    /\ UNCHANGED <<aux_vars, first_result, lcs_vars, sel_vars, call_vars, first_result, aux_vars>>

NextLcs ==
    \/ LcsConstruct
    \/ LcsBacktrack
    \/ LcsReturn

SpecLcs == InitLcs /\ [][NextLcs]_vars

\* _select_alignment_candidates(alignments, target_num_gt_tokens): the
\* candidate returned is kept in aligned_gt and aligned_ocr
SelectCandidate ==
    /\ pc = "select"
    /\ LET r == _select_alignment_candidates(sel_alignments, sel_target)
       IN  IF r.err # ""
           THEN RaiseError(r.err) /\ UNCHANGED <<aligned_gt, aligned_ocr>>
           ELSE /\ aligned_gt' = r.aligned_gt
                /\ aligned_ocr' = r.aligned_noise
                /\ pc' = "selected"
                /\ UNCHANGED err
    /\ UNCHANGED <<aux_vars, first_result, lcs_vars, sel_vars, gt_txt, ocr_txt, gt_tokens, ocr_tokens, gt_labels,
                   use_anchor, max_seg_length, gap_char, gt_anchors, ocr_anchors,
                   gt_to_ocr_mapping, ocr_to_gt_mapping, ocr_labels, labels, cur_i,
                   cur_begin_label>>

NextSelect == SelectCandidate

\* a faulty align: an empty side is padded with the default gap character
AlignEmptyDefaultGap ==
    /\ pc = "align_call"
    /\ gt_txt = <<>> \/ ocr_txt = <<>>
    /\ aligned_gt' = (IF gt_txt = <<>> THEN Repeat(GAP_CHAR, Len(ocr_txt)) ELSE gt_txt)
    /\ aligned_ocr' = (IF ocr_txt = <<>> THEN Repeat(GAP_CHAR, Len(gt_txt)) ELSE ocr_txt)
    /\ pc' = "aligned"
    /\ UNCHANGED <<aux_vars, first_result, lcs_vars, sel_vars, gt_txt, ocr_txt, gt_tokens, ocr_tokens, gt_labels,
                   use_anchor, max_seg_length, gap_char, gt_anchors, ocr_anchors,
                   gt_to_ocr_mapping, ocr_to_gt_mapping, ocr_labels, labels, cur_i,
                   cur_begin_label, err>>

\* align: the three branches of an empty input, each a return
AlignEmpty ==
    /\ pc = "align_call"
    /\ gt_txt = <<>> \/ ocr_txt = <<>>
    /\ IF gt_txt = <<>> /\ ocr_txt = <<>>
       THEN aligned_gt' = <<>> /\ aligned_ocr' = <<>>
       ELSE IF gt_txt = <<>>
       THEN aligned_gt' = Repeat(gap_char, Len(ocr_txt)) /\ aligned_ocr' = ocr_txt
       ELSE aligned_gt' = gt_txt /\ aligned_ocr' = Repeat(gap_char, Len(gt_txt))
    /\ pc' = "aligned"
    /\ UNCHANGED <<aux_vars, first_result, lcs_vars, sel_vars, gt_txt, ocr_txt, gt_tokens, ocr_tokens, gt_labels,
                   use_anchor, max_seg_length, gap_char, gt_anchors, ocr_anchors,
                   gt_to_ocr_mapping, ocr_to_gt_mapping, ocr_labels, labels, cur_i,
                   cur_begin_label, err>>

\* align, both strings non-empty: num_gt_tokens and the call of _align_seg,
\* whose candidates go to _select_alignment_candidates
AlignSeg ==
    /\ pc = "align_call"
    /\ gt_txt # <<>> /\ ocr_txt # <<>>
    /\ sel_target' = Len(tokenize(gt_txt))
    /\ sel_alignments' = _align_seg(gt_txt, ocr_txt, gap_char)
    /\ pc' = "select"
    /\ UNCHANGED <<aux_vars, first_result, lcs_vars, call_vars>>

NextAlignCall ==
    \/ AlignEmpty
    \/ AlignSeg
    \/ SelectCandidate

\* align, from the call to the return or the exception
SpecAlignCall == InitAlignCall /\ [][NextAlignCall]_vars

SpecSelect == InitSelect /\ [][NextSelect]_vars

NextParse == ParseAlignment

SpecParse == InitParse /\ [][NextParse]_vars

\* parse_alignment on strings long enough for a gap token between two tokens
SpecParseGapped == InitParseGapped /\ [][NextParse]_vars

----------------------------------------------------------------------------
(* Vocabulary of the properties *)

\* the number of whitespace-delimited tokens of a string
TokenCount(s) ==
    Cardinality({k \in 1..Len(s) :
                    s[k] \notin Whitespace /\ (k = 1 \/ s[k - 1] \in Whitespace)})

\* a Begin-tag B-<name>, an Inside-tag I-<name>, and the name of either
IsBeginTag(label) == Len(label) >= 3 /\ label[1] = "B" /\ label[2] = "-"
IsInsideTag(label) == Len(label) >= 3 /\ label[1] = "I" /\ label[2] = "-"
IsTagged(label) == IsBeginTag(label) \/ IsInsideTag(label)
TagType(label) == SubSeq(label, 3, Len(label))
BeginTag(type) == <<"B", "-">> \o type
InsideTag(type) == <<"I", "-">> \o type

\* the entity type of a label: the name of a tag, the label itself otherwise
EntityType(label) == IF IsTagged(label) THEN TagType(label) ELSE label

\* the aligned string is there: align or align_w_anchor has returned
Aligned == pc \in {"parse", "parsed"}

\* The noisy tokens of the aligned string that correspond to a reference
\* token, as 1-based positions of ocr_to_gt_mapping.
Corresponding == {j \in 1..Len(ocr_to_gt_mapping) : ocr_to_gt_mapping[j] # <<>>}

\* the position in ocr_labels of the label given to the noisy token j
LabelPos(j) == Cardinality({k \in Corresponding : k < j}) + 1

\* the lowest index of a correspondence list
Lowest(indices) == CHOOSE x \in Range(indices) : \A y \in Range(indices) : x <= y

\* the reference tokens that carry a Begin-tag and map to several noisy tokens
SplitBegins ==
    {i \in 1..Len(gt_to_ocr_mapping) :
        IsBeginTag(gt_labels[i]) /\ Len(gt_to_ocr_mapping[i]) > 1}

----------------------------------------------------------------------------
(* Properties *)

C2_AlignedLengthsEqual ==
    Aligned =>
        /\ Len(aligned_gt) = Len(aligned_ocr)
        /\ _select_alignment_candidates(
               << <<aligned_gt \o <<gap_char>>, aligned_ocr>> >>,
               TokenCount(aligned_gt \o <<gap_char>>)).err = "ValueError"

\* C2, its case: both modes return strings into which gaps were inserted
C2_Witness ==
    /\ pc = "parse"
    /\ use_anchor
    /\ gt_anchors # <<>>
    /\ Len(aligned_gt) > Len(gt_txt)
    /\ Len(aligned_ocr) > Len(ocr_txt)

\* C3: if find_anchor_recur returns (gt_anchors, ocr_anchors), then for
\* every k the two k-th indices name the same word, and so do the k-th
\* entries of the two word maps of get_anchor_map.
C3_AnchorsNameSameWord ==
    (use_anchor /\ pc \in {"segments", "parse", "parsed"}) =>
        /\ \A k \in 1..Min2(Len(gt_anchors), Len(ocr_anchors)) :
               gt_tokens[gt_anchors[k] + 1] = ocr_tokens[ocr_anchors[k] + 1]
        /\ LET anchor_map == get_anchor_map(gt_tokens, ocr_tokens)
           IN  \A k \in 1..Min2(Len(anchor_map[1]), Len(anchor_map[2])) :
                   anchor_map[1][k][1] = anchor_map[2][k][1]

\* C4: for token lists that pass validation, in either mode, the mapping
\* _propagate_label_to_ocr gets from parse_alignment has one entry per
\* reference token, so the error 'Alignment modified number of gt_tokens'
\* is never raised.
C4_NoInvariantError ==
    /\ pc = "parsed" => Len(gt_to_ocr_mapping) = Len(gt_tokens)
    /\ err # "ValueError: Alignment modified number of gt_tokens"

\* C5: whenever align_w_anchor(gt, ocr, max_seg_length) returns, the aligned
\* ground truth has as many whitespace-delimited tokens as gt, wherever the
\* anchors lie in the two streams.
C5_AnchorAlignKeepsTokenCount ==
    (Aligned /\ use_anchor) => TokenCount(aligned_gt) = TokenCount(gt_txt)

\* C6: whenever propagate_label_to_ocr returns, in either mode, ocr_labels
\* holds exactly one label per token of ocr_tokens.
C6_OneLabelPerOcrToken ==
    pc = "returned" => Len(ocr_labels) = Len(ocr_tokens)

\* C6, its case: a return, in anchor mode, with more noisy tokens than
\* reference tokens
C6_Witness ==
    /\ pc = "returned"
    /\ use_anchor
    /\ Len(ocr_tokens) = 2
    /\ Len(gt_tokens) = 1
    /\ Len(ocr_labels) = 2

ScanStep ==
    LET label == labels[cur_i + 1]
    IN  /\ cur_i' = cur_i + 1
        /\ CASE IsBeginTag(label) ->
                    labels' = labels /\ cur_begin_label' = label
             [] IsInsideTag(label) /\ cur_begin_label # <<>>
                    /\ TagType(label) = TagType(cur_begin_label) ->
                    labels' = labels /\ cur_begin_label' = cur_begin_label
             [] IsInsideTag(label) /\ (cur_begin_label = <<>>
                    \/ TagType(label) # TagType(cur_begin_label)) ->
                    /\ labels' = [labels EXCEPT ![cur_i + 1] = BeginTag(TagType(label))]
                    /\ cur_begin_label' = BeginTag(TagType(label))
             [] OTHER ->
                    labels' = labels /\ cur_begin_label' = <<>>

\* every Inside-tag is immediately preceded by a tag of its own type
NoOrphanInside(label_list) ==
    \A k \in 1..Len(label_list) :
        IsInsideTag(label_list[k]) =>
            /\ k > 1
            /\ IsTagged(label_list[k - 1])
            /\ TagType(label_list[k - 1]) = TagType(label_list[k])

\* C8: correct_ner_labels is a left-to-right scan whose state is the active
\* entity: a Begin-tag makes its type active, a plain tag clears it, an
\* Inside-tag of the active type is kept, any other Inside-tag is rewritten
\* to the Begin-tag of its own type and becomes active; so in the returned
\* list every Inside-tag I-T is immediately preceded by B-T or I-T.
C8_CorrectIsLeftToRightScan ==
    /\ [][(pc = "correct" /\ cur_i < Len(labels)) => ScanStep]_vars
    /\ [](pc = "corrected" => NoOrphanInside(labels))

\* C8, its case: a returned list in which an orphan Inside-tag was rewritten
\* and the Inside-tag after it was kept
C8_Witness ==
    /\ pc = "corrected"
    /\ \E k \in 2..Len(labels) :
           /\ IsInsideTag(ocr_labels[k - 1])
           /\ IsBeginTag(labels[k - 1])
           /\ IsInsideTag(labels[k])

\* C9: every noisy token that corresponds to reference tokens takes its
\* label from the lowest-index one of them; in the returned labels that
\* label differs from the reference label at most in its B-/I- prefix, and a
\* plain label is returned unchanged.
C9_FirstMatchLabel ==
    /\ pc \in {"step2a", "step2b", "returned"} =>
           Len(ocr_labels) = Cardinality(Corresponding)
    /\ pc = "step2a" =>
           \A j \in Corresponding :
               ocr_labels[LabelPos(j)] = gt_labels[Lowest(ocr_to_gt_mapping[j]) + 1]
    /\ pc = "returned" =>
           \A j \in Corresponding :
               LET reference == gt_labels[Lowest(ocr_to_gt_mapping[j]) + 1]
                   returned == ocr_labels[LabelPos(j)]
               IN  /\ IsTagged(returned) = IsTagged(reference)
                   /\ EntityType(returned) = EntityType(reference)

\* C9, its case: a returned noisy token that corresponds to two reference
\* tokens with labels of different types, and whose label has changed prefix
C9_Witness ==
    /\ pc = "returned"
    /\ \E j \in Corresponding :
           LET indices == ocr_to_gt_mapping[j]
               reference == gt_labels[Lowest(indices) + 1]
           IN  /\ Len(indices) > 1
               /\ EntityType(gt_labels[indices[2] + 1]) # EntityType(reference)
               /\ ocr_labels[LabelPos(j)] # reference

GapOnly(token) == \A k \in 1..Len(token) : token[k] = gap_char

\* every gap-only token of a string has an empty list in the string's own
\* array, and its index is in no list of the other array
InvalidTokensUnrecorded(tokens, own, other) ==
    \A k \in 1..Len(tokens) :
        GapOnly(tokens[k]) =>
            /\ k <= Len(own)
            /\ own[k] = <<>>
            /\ \A j \in 1..Len(other) : (k - 1) \notin Range(other[j])

\* C11: for every pair of aligned strings of equal length, a token of either
\* string that is empty or made of gap characters only has an empty list in
\* its own array returned by parse_alignment, and its index is in no list of
\* the other array.
C11_NoRecordForInvalidToken ==
    pc = "parsed" =>
        /\ InvalidTokensUnrecorded(tokenize(aligned_gt), gt_to_ocr_mapping,
                                   ocr_to_gt_mapping)
        /\ InvalidTokensUnrecorded(tokenize(aligned_ocr), ocr_to_gt_mapping,
                                   gt_to_ocr_mapping)

\* x is a subsequence of s
RECURSIVE IsSubseq(_, _)
IsSubseq(x, s) ==
    IF x = <<>> THEN TRUE
    ELSE IF s = <<>> THEN FALSE
    ELSE IF Head(x) = Head(s) THEN IsSubseq(Tail(x), Tail(s))
    ELSE IsSubseq(x, Tail(s))

\* the common subsequences of a and b
CommonSubseqs(a, b) ==
    {x \in SeqsUpTo(Range(a), Len(a)) : IsSubseq(x, a) /\ IsSubseq(x, b)}

\* C12: LCS(a, b).get_str() is a common subsequence of a and b, its length is
\* get_len(), and get_len() is the greatest length of a common subsequence;
\* if a or b is empty the result is the empty string, of length 0.
C12_LcsIsLongestCommonSubsequence ==
    pc = "lcs_done" =>
        /\ _lcs = LCS_get_str(lcs_str_m, lcs_str_n)
        /\ _lcs_len = LCS_get_len(lcs_str_m, lcs_str_n)
        /\ _lcs \in CommonSubseqs(lcs_str_m, lcs_str_n)
        /\ Len(_lcs) = _lcs_len
        /\ \A x \in CommonSubseqs(lcs_str_m, lcs_str_n) : Len(x) <= _lcs_len
        /\ (lcs_str_m = <<>> \/ lcs_str_n = <<>>) => (_lcs = <<>> /\ _lcs_len = 0)

\* C12, its case: two different strings with a common subsequence of two
\* characters that is neither a prefix nor a suffix of the first
C12_Witness ==
    /\ pc = "lcs_done"
    /\ Len(_lcs) = 2
    /\ lcs_str_m # lcs_str_n
    /\ Len(lcs_str_m) = 3
    /\ _lcs # SubSeq(lcs_str_m, 1, 2)
    /\ _lcs # SubSeq(lcs_str_m, 2, 3)

\* the backtrack is at a cell whose characters differ and whose 'up' and
\* 'left' neighbours hold the same value
LcsTie ==
    /\ pc = "lcs_find"
    /\ lcs_m > 0 /\ lcs_n > 0
    /\ lcs_str_m[lcs_m] # lcs_str_n[lcs_n]
    /\ lcs_dp_table[lcs_m][lcs_n + 1] = lcs_dp_table[lcs_m + 1][lcs_n]

\* C13: in the backtrack, when the current characters differ and the 'up'
\* neighbour dp[m-1][n] equals the 'left' neighbour dp[m][n-1], the walk
\* moves up: it decrements the first string's index.
C13_TieMovesUp ==
    [][LcsTie => (lcs_m' = lcs_m - 1 /\ lcs_n' = lcs_n)]_vars

\* C13, amended: in the backtrack, when the current characters differ, the
\* walk moves up only if the 'up' neighbour is strictly greater than the
\* 'left' one; when the two are equal it moves left: it decrements the second
\* string's index.
C13_TieMovesLeft ==
    [][(pc = "lcs_find" /\ lcs_m > 0 /\ lcs_n > 0
            /\ lcs_str_m[lcs_m] # lcs_str_n[lcs_n]) =>
           IF lcs_dp_table[lcs_m][lcs_n + 1] > lcs_dp_table[lcs_m + 1][lcs_n]
           THEN lcs_m' = lcs_m - 1 /\ lcs_n' = lcs_n
           ELSE lcs_m' = lcs_m /\ lcs_n' = lcs_n - 1]_vars

\* C13, its case: two strings of two characters, each the other reversed,
\* have two longest common subsequences; the walk has met the tie at the
\* last cell and returned the last character of the first string
C13_Witness ==
    /\ pc = "lcs_done"
    /\ Len(lcs_str_m) = 2 /\ Len(lcs_str_n) = 2
    /\ lcs_str_m[1] # lcs_str_m[2]
    /\ lcs_str_m[1] = lcs_str_n[2] /\ lcs_str_m[2] = lcs_str_n[1]
    /\ _lcs = <<lcs_str_m[2]>>

\* a list of indices is strictly ascending and within 0..n-1
AscendingIndices(indices, n) ==
    /\ \A k \in 1..Len(indices) : indices[k] \in 0..(n - 1)
    /\ \A k \in 1..(Len(indices) - 1) : indices[k] < indices[k + 1]

\* C14: for every pair of token lists and every max_seg_length >= 0,
\* find_anchor_recur returns two lists of the same length, each strictly
\* ascending and made of valid indices of its own stream; the ValueError
\* 'Unequal number of anchor points' is never raised.
C14_AnchorListsMatch ==
    /\ [][(pc = "align" /\ use_anchor) => pc' = "segments"]_vars
    /\ []((use_anchor /\ pc = "segments") =>
            /\ Len(gt_anchors) = Len(ocr_anchors)
            /\ AscendingIndices(gt_anchors, Len(gt_tokens))
            /\ AscendingIndices(ocr_anchors, Len(ocr_tokens)))

\* C14, its case: find_anchor_recur has returned two anchors, one of them
\* found by the recursion on a segment: its word occurs twice in the stream
C14_Witness ==
    /\ use_anchor
    /\ pc = "segments"
    /\ Len(gt_anchors) = 2
    /\ \E k \in 1..2 : \E i \in 1..Len(gt_tokens) :
           i # gt_anchors[k] + 1 /\ gt_tokens[i] = gt_tokens[gt_anchors[k] + 1]

\* the positions of the candidates whose aligned reference string has the
\* target number of whitespace-delimited tokens, gap characters left in place
Qualifying ==
    {k \in 1..Len(sel_alignments) : TokenCount(sel_alignments[k][1]) = sel_target}

\* the earliest of them
Earliest == CHOOSE k \in Qualifying : \A j \in Qualifying : k <= j

\* C15: _select_alignment_candidates(alignments, n) returns the earliest
\* candidate whose aligned reference string splits into exactly n tokens,
\* never a later one; it raises ValueError exactly when no candidate
\* qualifies or the earliest qualifying one has strings of unequal lengths.
C15_EarliestQualifyingCandidate ==
    /\ pc = "selected" =>
           /\ Qualifying # {}
           /\ <<aligned_gt, aligned_ocr>> = sel_alignments[Earliest]
           /\ Len(aligned_gt) = Len(aligned_ocr)
    /\ pc = "raised" =>
           /\ err = "ValueError"
           /\ \/ Qualifying = {}
              \/ Len(sel_alignments[Earliest][1]) # Len(sel_alignments[Earliest][2])

\* C15, its case: the second candidate is returned although a later one
\* qualifies too and differs from it
C15_Witness ==
    /\ pc = "selected"
    /\ Len(sel_alignments) = 3
    /\ Qualifying = {2, 3}
    /\ sel_alignments[2] # sel_alignments[3]
    /\ Len(sel_alignments[3][1]) = Len(sel_alignments[3][2])

\* a string with its gap characters removed
Degap(s) == SelectSeq(s, LAMBDA c : c # gap_char)

\* the positions of the candidates whose aligned reference has n tokens, with
\* the gap characters left in place and with the gap characters removed
QualifyingIn(cands, n) == {k \in 1..Len(cands) : TokenCount(cands[k][1]) = n}
QualifyingDegappedIn(cands, n) ==
    {k \in 1..Len(cands) : TokenCount(Degap(cands[k][1])) = n}

\* align has returned the earliest candidate of those at the positions Q, or
\* has failed and Q is empty
SelectedFrom(cands, Q) ==
    /\ pc \in {"parse", "parsed"} =>
           /\ Q # {}
           /\ <<aligned_gt, aligned_ocr>> = cands[CHOOSE k \in Q : \A j \in Q : k <= j]
    /\ pc = "raised" => Q = {}

\* align was called with two non-empty strings and has returned or failed
AlignedFromCandidates ==
    /\ ~use_anchor
    /\ gt_txt # <<>> /\ ocr_txt # <<>>
    /\ pc \in {"parse", "parsed", "raised"}

\* C16, as the specification states it: align returns the first candidate
\* whose reference side, with its gap characters removed and re-tokenized,
\* has as many tokens as the original reference; it fails only if there is
\* no such candidate.
C16_FirstDegappedCandidate ==
    AlignedFromCandidates =>
        SelectedFrom(_align_seg(gt_txt, ocr_txt, gap_char),
                     QualifyingDegappedIn(_align_seg(gt_txt, ocr_txt, gap_char),
                                          TokenCount(gt_txt)))

\* C16, amended: align returns the first candidate whose aligned reference
\* side, tokenized with its gap characters left in place, has as many tokens
\* as the original reference; it fails only if there is no such candidate.
C16_FirstCandidateKeepingTokens ==
    AlignedFromCandidates =>
        SelectedFrom(_align_seg(gt_txt, ocr_txt, gap_char),
                     QualifyingIn(_align_seg(gt_txt, ocr_txt, gap_char),
                                  TokenCount(gt_txt)))

\* C16, its case: align has returned a candidate that is not the first of
\* the list
C16_Witness ==
    /\ AlignedFromCandidates
    /\ pc = "parse"
    /\ <<aligned_gt, aligned_ocr>> # Head(_align_seg(gt_txt, ocr_txt, gap_char))

\* the defects of a token: more than one word; empty or whitespace only; gap
\* characters only, with or without whitespace around them
MultiWord(token) == TokenCount(token) > 1
EmptyOrBlank(token) == \A k \in 1..Len(token) : token[k] \in Whitespace
GapOnlyPadded(token) ==
    /\ TokenCount(token) = 1
    /\ \A k \in 1..Len(token) : token[k] \in Whitespace \cup {gap_char}
BadToken(token) == MultiWord(token) \/ EmptyOrBlank(token) \/ GapOnlyPadded(token)

\* the tokens in the order they are checked, and the first invalid one
CheckedTokens == gt_tokens \o ocr_tokens
BadPositions == {k \in 1..Len(CheckedTokens) : BadToken(CheckedTokens[k])}
FirstBadToken == CheckedTokens[CHOOSE k \in BadPositions : \A j \in BadPositions : k <= j]

\* the input is invalid
Defective == Len(gt_labels) # Len(gt_tokens) \/ BadPositions # {}

\* C17: _propagate_label_to_ocr rejects an invalid input before any
\* alignment and produces no labels: ValueError when the numbers of labels
\* and reference tokens differ; otherwise the error of the first invalid
\* token, ValueError when it holds several words, is empty or is whitespace
\* only, GapCharError when it is made of gap characters only (whitespace
\* around them allowed).  A valid input passes.
C17_InvalidInputRejected ==
    /\ [](Defective =>
             /\ pc \in {"validate", "raised"}
             /\ gt_txt = <<>> /\ ocr_txt = <<>>
             /\ aligned_gt = <<>> /\ aligned_ocr = <<>>
             /\ ocr_labels = <<>>
             /\ pc = "raised" =>
                    err = IF Len(gt_labels) # Len(gt_tokens) THEN "ValueError"
                          ELSE IF GapOnlyPadded(FirstBadToken) THEN "GapCharError"
                          ELSE "ValueError")
    /\ [][(pc = "validate" /\ ~Defective) => pc' = "align"]_vars

\* C17, its case: the call is rejected with GapCharError for an OCR token
\* made of a space and the gap character, the reference tokens being valid
C17_Witness ==
    /\ pc = "raised"
    /\ err = "GapCharError"
    /\ gt_tokens # <<>>
    /\ \A k \in 1..Len(gt_tokens) : ~BadToken(gt_tokens[k])
    /\ FirstBadToken = <<" ", gap_char>>

\* the characters of the input tokens, and whether they leave no candidate
InputChars == UNION {Range(tk) : tk \in Range(gt_tokens \o ocr_tokens)}
Exhausted == GAP_CHAR_SET \subseteq InputChars

\* C18: propagate_label_to_ocr raises GapCharError exactly when every
\* character of GAP_CHAR_SET occurs in the gt and ocr tokens, and then before
\* any other validation (nothing else of the call has happened); otherwise
\* the gap character used and returned occurs in no input token, and it is
\* the default '@' whenever '@' occurs in no input token
C18_GapCharChoice ==
    pc # "propagate" =>
        /\ Exhausted =>
               /\ pc = "raised" /\ err = "GapCharError"
               /\ gap_char = ""
               /\ gt_txt = <<>> /\ ocr_txt = <<>> /\ aligned_gt = <<>> /\ ocr_labels = <<>>
        /\ ~Exhausted =>
               /\ err # "GapCharError"
               /\ gap_char \in GAP_CHAR_SET \ InputChars
               /\ GAP_CHAR \notin InputChars => gap_char = GAP_CHAR

\* C18, its case: the candidates are used up by gt and ocr tokens together,
\* by neither alone, in a call whose label count is wrong and that holds an
\* empty token
C18_Witness ==
    /\ pc = "raised" /\ err = "GapCharError"
    /\ Exhausted
    /\ ~(GAP_CHAR_SET \subseteq UNION {Range(tk) : tk \in Range(gt_tokens)})
    /\ ~(GAP_CHAR_SET \subseteq UNION {Range(tk) : tk \in Range(ocr_tokens)})
    /\ Len(gt_labels) # Len(gt_tokens)
    /\ <<>> \in Range(gt_tokens)
\* the call of align has ended
AlignEnded == pc \in {"aligned", "selected", "raised"}

\* C19: for any gap_char, align(reference, "") returns (reference, gap_char
\* repeated len(reference) times), align("", noisy) returns (gap_char
\* repeated len(noisy) times, noisy) and align("", "") returns ("", ""), and
\* in these cases the call returns at once, without a call of _align_seg
\* (no candidate list is computed); the branches taken step by step give
\* what the operator align gives
C19_EmptySideIsPaddedWithoutAligner ==
    /\ [][(pc = "align_call" /\ (gt_txt = <<>> \/ ocr_txt = <<>>)) =>
              /\ pc' = "aligned"
              /\ sel_alignments' = <<>> /\ sel_target' = 0
              /\ gt_txt = <<>> => aligned_gt' = Repeat(gap_char, Len(ocr_txt)) /\ aligned_ocr' = ocr_txt
              /\ ocr_txt = <<>> => aligned_gt' = gt_txt /\ aligned_ocr' = Repeat(gap_char, Len(gt_txt))]_vars
    /\ [](pc = "aligned" => (gt_txt = <<>> \/ ocr_txt = <<>>) /\ Len(aligned_gt) = Len(gt_txt) + Len(ocr_txt))
    /\ [](AlignEnded =>
              align(gt_txt, ocr_txt, gap_char)
                  = IF pc = "raised" THEN Raise(err) ELSE Return(aligned_gt, aligned_ocr))

\* C19, its case: align("", noisy) has returned, with a gap character that
\* occurs in noisy
C19_Witness ==
    /\ pc = "aligned"
    /\ gt_txt = <<>> /\ Len(ocr_txt) > 1
    /\ gap_char # GAP_CHAR /\ gap_char \in Range(ocr_txt)
    /\ aligned_gt = Repeat(gap_char, Len(ocr_txt))
\* the regression case: the tags B-PLACE, I-PLACE of "New", "York"
PlaceCall(noisy) ==
    /\ gt_tokens = PlaceTokens
    /\ gt_labels = <<LabelBPlace, LabelIPlace>>
    /\ ocr_tokens = noisy

\* C20 as stated: against the two noisy tokens "N", "ewYork" the call returns
\* the three labels B-PLACE, I-PLACE, I-PLACE
C20_SplitTokenGivesThreeLabelsForTwoTokens ==
    (PlaceCall(<<<<"N">>, <<"e", "w", "Y", "o", "r", "k">>>>) /\ pc = "returned") =>
        ocr_labels = <<LabelBPlace, LabelIPlace, LabelIPlace>>

\* C20, amended: the three labels B-PLACE, I-PLACE, I-PLACE are returned
\* for the three noisy tokens "N", "ew", "York" ("New" split into two
\* tokens); the two noisy tokens "N", "ewYork" get the two labels B-PLACE,
\* I-PLACE; neither call raises
C20_SplitTokenLabels ==
    /\ PlaceCall(<<<<"N">>, <<"e", "w">>, <<"Y", "o", "r", "k">>>>) =>
           /\ pc # "raised"
           /\ pc = "returned" => ocr_labels = <<LabelBPlace, LabelIPlace, LabelIPlace>>
    /\ PlaceCall(<<<<"N">>, <<"e", "w", "Y", "o", "r", "k">>>>) =>
           /\ pc # "raised"
           /\ pc = "returned" => ocr_labels = <<LabelBPlace, LabelIPlace>>

\* C20, its case: the call on "N", "ew", "York" has returned its three labels
C20_Witness ==
    /\ PlaceCall(<<<<"N">>, <<"e", "w">>, <<"Y", "o", "r", "k">>>>)
    /\ pc = "returned"
    /\ Len(ocr_labels) = 3
    /\ gt_to_ocr_mapping = <<<<0, 1>>, <<2>>>>
\* C21: two calls of propagate_label_to_ocr with equal arguments return equal
\* results in all four components (labels, aligned reference, aligned noisy
\* string, gap character), whichever characters occur in the tokens
C21_EqualCallsReturnEqualResults ==
    (pc = "returned" /\ first_result # <<>>) =>
        first_result = <<ocr_labels, aligned_gt, aligned_ocr, gap_char>>
\* C22, for correct_ner_labels: when the call has returned, the caller's label
\* list (labels, the list passed) holds the contents it had before the call
\* (ocr_labels, which the call leaves alone)
C22_ArgumentsKeepTheirContents ==
    pc = "corrected" => labels = ocr_labels
\* the calls that a step of find_anchor_recur adds to those not yet returned
NewAnchorCalls == SubSeq(anchor_calls', 1, Len(anchor_calls') - Len(anchor_calls) + 1)
\* the call at hand has no unique word common to its two streams
NoSharedUniqueWord(call) == get_unique_words(call.gt) \cap get_unique_words(call.ocr) = {}

\* what is left to do of a call of find_anchor_recur: a natural number that
\* counts the calls not yet returned and twice the tokens they were given
RECURSIVE PendingWork(_)
PendingWork(calls) ==
    IF calls = <<>> THEN 0
    ELSE 2 * (Len(Head(calls).gt) + Len(Head(calls).ocr)) + 1 + PendingWork(Tail(calls))
AnchorWork == (IF pc = "anchor_recur" THEN 1 ELSE 0) + PendingWork(anchor_calls)

\* C23: find_anchor_recur terminates for every pair of token lists and every
\* max_seg_length >= 0, 0 included: every step of a call that has not ended
\* lessens the work left, a natural number, so the call ends; every
\* recursive call is made on strictly shorter token lists; a call on streams
\* with no shared unique word makes no call and adds no anchor (at the top
\* it returns ([], [])); what the call returns is what the operator
\* find_anchor_recur gives
C23_AnchorRecursionTerminates ==
    /\ [][pc = "anchor_recur" => (AnchorWork' \in Nat /\ AnchorWork' < AnchorWork)]_vars
    /\ [][(pc = "anchor_recur" /\ anchor_calls # <<>> /\ pc' = "anchor_recur") =>
              /\ \A k \in 1..Len(NewAnchorCalls) :
                     /\ Len(NewAnchorCalls[k].gt) < Len(Head(anchor_calls).gt)
                     /\ Len(NewAnchorCalls[k].ocr) < Len(Head(anchor_calls).ocr)
              /\ NoSharedUniqueWord(Head(anchor_calls)) =>
                     /\ anchor_calls' = Tail(anchor_calls)
                     /\ UNCHANGED <<gt_anchors, ocr_anchors>>]_vars
    /\ [](pc = "anchors_found" =>
              /\ find_anchor_recur(gt_tokens, ocr_tokens, max_seg_length)
                     = [err |-> "", gt |-> gt_anchors, ocr |-> ocr_anchors]
              /\ NoSharedUniqueWord([gt |-> gt_tokens, ocr |-> ocr_tokens]) =>
                     gt_anchors = <<>> /\ ocr_anchors = <<>>)

\* C23, its case: with max_seg_length = 0 the call has ended after a
\* recursive call that found an anchor the first call did not
C23_Witness ==
    /\ pc = "anchors_found"
    /\ max_seg_length = 0
    /\ Len(gt_anchors) > Len(get_anchor_map(gt_tokens, ocr_tokens)[1])
\* C24: get_anchor_map(gt_tokens, ocr_tokens, min_anchor_len=k) reports no
\* anchor word shorter than k
C24_AnchorWordsAtLeastMinLen ==
    pc = "anchor_map_returned" =>
        /\ \A k \in 1..Len(gt_anchors) : Len(gt_anchors[k][1]) >= min_anchor_len
        /\ \A k \in 1..Len(ocr_anchors) : Len(ocr_anchors[k][1]) >= min_anchor_len
\* every clean sentence holds a token
NonEmptySentences == \A k \in 1..Len(clean_sentences) : clean_sentences[k] # <<>>

\* C25: when propagate_labels_sentences returns for non-empty clean
\* sentences there is one OCR sentence for every clean sentence and the OCR
\* sentences, concatenated in order, are the OCR tokens: no token dropped,
\* none twice, the labels likewise
C25_SentenceSplitKeepsEveryOcrToken ==
    (pc = "sentences_returned" /\ NonEmptySentences) =>
        /\ Len(ocr_text_sentences) = Len(clean_sentences)
        /\ Len(merged_sentences(ocr_text_sentences)) = Len(ocr_tokens)
        /\ merged_sentences(ocr_text_sentences) = ocr_tokens
        /\ merged_sentences(ocr_labels_sentences) = ocr_labels

\* C25, its case: the call has returned two sentences or more for clean
\* tokens of which one has no OCR counterpart
C25_Witness ==
    /\ pc = "sentences_returned"
    /\ Len(clean_sentences) >= 2
    /\ NonEmptySentences
    /\ \E i \in 1..Len(gt_to_ocr_mapping) : gt_to_ocr_mapping[i] = <<>>
\* j is in the list of i in the array "own" exactly when i is in the list
\* of j in the array "other" (indices 0-based), and no list of "own" holds an
\* index twice or an index that "other" does not have
InverseOf(own, other) ==
    \A i \in 1..Len(own) :
        /\ \A k \in 1..Len(own[i]) :
               /\ own[i][k] \in 0..(Len(other) - 1)
               /\ (i - 1) \in Range(other[own[i][k] + 1])
        /\ \A k, l \in 1..Len(own[i]) : own[i][k] = own[i][l] => k = l

\* C26: the two arrays returned by parse_alignment are mutual inverses: j is
\* in gt_to_noise_mapping[i] if and only if i is in noise_to_gt_mapping[j],
\* and no list holds an index twice
C26_MappingsAreMutualInverses ==
    pc = "parsed" =>
        /\ InverseOf(gt_to_ocr_mapping, ocr_to_gt_mapping)
        /\ InverseOf(ocr_to_gt_mapping, gt_to_ocr_mapping)

\* C26, its case: parse_alignment returned a reference token with two noisy
\* tokens and a reference token with none
C26_Witness ==
    /\ pc = "parsed"
    /\ \E i \in 1..Len(gt_to_ocr_mapping) : Len(gt_to_ocr_mapping[i]) = 2
    /\ \E i \in 1..Len(gt_to_ocr_mapping) : gt_to_ocr_mapping[i] = <<>>

\* every list of the array is strictly ascending
Ascending(m) ==
    \A i \in 1..Len(m) : \A k \in 1..(Len(m[i]) - 1) : m[i][k] < m[i][k + 1]
\* every list of the array is made of consecutive indices
Consecutive(m) ==
    \A i \in 1..Len(m) : \A k \in 1..(Len(m[i]) - 1) : m[i][k] + 1 = m[i][k + 1]
\* the lists of later tokens hold no smaller index than those of earlier ones
NonCrossing(m) ==
    \A i, ii \in 1..Len(m) : i < ii =>
        \A k \in 1..Len(m[i]) : \A l \in 1..Len(m[ii]) : m[i][k] <= m[ii][l]
\* an index that a list of "own" passes over is that of a token with no
\* correspondence
SkipsOnlyUnmapped(own, other) ==
    \A i \in 1..Len(own) : \A k \in 1..(Len(own[i]) - 1) :
        \A z \in (own[i][k] + 1)..(own[i][k + 1] - 1) :
            z + 1 \in 1..Len(other) /\ other[z + 1] = <<>>

\* C27, as the specification states it: the correspondence of
\* parse_alignment is order-preserving: every list is strictly ascending and
\* made of consecutive indices, and the lists do not cross
C27_ConsecutiveAndNonCrossing ==
    pc = "parsed" =>
        /\ Ascending(gt_to_ocr_mapping) /\ Ascending(ocr_to_gt_mapping)
        /\ Consecutive(gt_to_ocr_mapping) /\ Consecutive(ocr_to_gt_mapping)
        /\ NonCrossing(gt_to_ocr_mapping) /\ NonCrossing(ocr_to_gt_mapping)

\* C27, amended: every list is strictly ascending, the lists do not cross,
\* and the indices a list passes over are those of tokens that have no
\* correspondence
C27_AscendingAndNonCrossing ==
    pc = "parsed" =>
        /\ Ascending(gt_to_ocr_mapping) /\ Ascending(ocr_to_gt_mapping)
        /\ NonCrossing(gt_to_ocr_mapping) /\ NonCrossing(ocr_to_gt_mapping)
        /\ SkipsOnlyUnmapped(gt_to_ocr_mapping, ocr_to_gt_mapping)
        /\ SkipsOnlyUnmapped(ocr_to_gt_mapping, gt_to_ocr_mapping)

\* C27, its case: a token that corresponds to the tokens before and after a
\* token of gap characters, which has no correspondence
C27_Witness ==
    /\ pc = "parsed"
    /\ \E i \in 1..Len(gt_to_ocr_mapping) :
           /\ gt_to_ocr_mapping[i] = <<0, 2>>
           /\ ocr_to_gt_mapping[2] = <<>>

\* C28: for every pair of equal-length strings over any characters,
\* parse_alignment indexes no mapping array and no string out of bounds: a
\* correspondence is written only at a token index smaller than the token
\* count of its string, and no cursor is moved past the padding
C28_ParseStaysInBounds ==
    pc = "raised" => err # "IndexError"
\* the positions of ocr_labels that STEP 2a reads and writes: the second and
\* later connections of the reference tokens with a Begin label
TrailingPositions ==
    UNION {{gt_to_ocr_mapping[i][k] : k \in 2..Len(gt_to_ocr_mapping[i])} :
              i \in {i \in 1..Len(gt_to_ocr_mapping) : _is_begin_label(gt_labels[i])}}
\* the position in ocr_labels of the label of noisy token j: the naive step
\* appends no label for an entry of ocr_to_gt_mapping that is empty
PositionOfToken(j) == Cardinality({l \in 1..j : ocr_to_gt_mapping[l] # <<>>})

\* C29: in _propagate_label_to_ocr every position of ocr_labels that the
\* trailing-Begin step takes from gt_to_ocr_mapping is an index of
\* ocr_labels and is the position of the label of that same noisy token,
\* and the step raises no IndexError
C29_TrailingPositionsAreLabelPositions ==
    /\ pc = "step2a" =>
           \A j \in TrailingPositions : j < Len(ocr_labels) /\ PositionOfToken(j) = j
    /\ pc = "raised" => err # "IndexError"

\* the token is invalid whatever the gap character: several words, empty,
\* or whitespace only
InvalidToken(token) == MultiWord(token) \/ EmptyOrBlank(token)

\* C30: through propagate_label_to_ocr the GapCharError of the token
\* validation cannot be reached: a GapCharError is raised by the choice of
\* the gap character only, when the candidates are exhausted, before a gap
\* character is set; the gap character chosen is in no token, and a call
\* with an invalid token and candidates left ends with ValueError
C30_ValidationGapCharErrorUnreachable ==
    /\ [][err' = "GapCharError" => (pc = "propagate" /\ Exhausted)]_vars
    /\ [](err = "GapCharError" => (pc = "raised" /\ gap_char = "" /\ Exhausted))
    /\ [](pc = "validate" => gap_char \notin InputChars)
    /\ []((/\ ~Exhausted
           /\ \E k \in 1..Len(CheckedTokens) : InvalidToken(CheckedTokens[k])
           /\ pc \notin {"propagate", "validate"})
             => (pc = "raised" /\ err = "ValueError"))

\* C30, its case: a call whose tokens hold the default gap character and a
\* blank token, with the right number of labels, has ended with ValueError
C30_Witness ==
    /\ pc = "raised"
    /\ err = "ValueError"
    /\ gap_char \notin {"", GAP_CHAR}
    /\ <<" ">> \in Range(CheckedTokens)
    /\ <<" ", GAP_CHAR>> \in Range(CheckedTokens)
    /\ Len(gt_labels) = Len(gt_tokens)
====
